---- MODULE Spec2Model ----
(***************************************************************************)
(* A model of rdst, an unstable radix sort for keys made of a fixed number *)
(* of level bytes (level 0 = most significant).                            *)
(*                                                                         *)
(* Scaling.  A level byte takes Radix values (256 in the source), and the  *)
(* size thresholds of the source (32, 100 000, 1 000 000, 400 000, 16384)  *)
(* are scaled to small numbers that keep their order; the tuner's table is *)
(* pure integer arithmetic and keeps the source's numbers.  Slices are     *)
(* sequences; the source's 0-based index i is position i + 1.              *)
(*                                                                         *)
(* Entry points, one specification each over the same variables:           *)
(*   Spec       radix_sort_unstable (lib.rs), called twice in a row        *)
(*   SpecTuner  Tuner::pick_algorithm (tuner.rs)                           *)
(*   SpecKey    get_level of the default keys (radix_key_impl.rs)          *)
(*   SpecCount  par_get_counts, get_tile_counts + aggregate_tile_counts    *)
(*              (utils/sort_utils.rs) and par_get_all_counts (lib.rs)      *)
(*   SpecMtLsb  mt_lsb_sort_adapter (sorts/mt_lsb_sort.rs)                 *)
(***************************************************************************)
EXTENDS Integers, Sequences, FiniteSets, TLC

\* ------------------------------------------------------------ bounds ----
\* Number of values of a level byte (u8 in the source: 256).
Radix == 3
\* bucket.len() < 32 falls back to a comparison sort (lib.rs:297, 513).
SortThreshold == 3
\* bucket.len() > 100_000 counts in parallel (lib.rs:302).
ParCountThreshold == 3
\* bucket.len() > 1_000_000 takes the scanning path (lib.rs:308).
ScanThreshold == 4
\* scanner_read_size = 16384 (lib.rs:349).
ScannerReadSize == 2
\* num_cpus::get(): the workers of the scanning sort and the chunking of
\* the parallel count.
NumCpus == 2
\* Width of usize in bits (64 on the source's targets), for wrapping
\* arithmetic in a build without overflow checks.
UsizeBits == 12

Bytes == 0 .. (Radix - 1)
MaxLen == ScanThreshold + 1

RECURSIVE Pow(_, _)
Pow(b, e) == IF e = 0 THEN 1 ELSE b * Pow(b, e - 1)

Min(a, b) == IF a < b THEN a ELSE b

UsizeModulus == Pow(2, UsizeBits)
wrapping_sub(a, b) == (a - b) % UsizeModulus
wrapping_mul(a, b) == (a * b) % UsizeModulus
wrapping_add(a, b) == (a + b) % UsizeModulus

\* The contents of a slot of get_tmp_bucket's buffer before it is written.
Uninit == 0 - 1

\* The state of a mutex whose guard was dropped by a panicking thread.
Poisoned == 0 - 1

\* ------------------------------------------------------- key types ------
\* The default integer keys of radix_key_impl.rs, and two caller-defined
\* keys: Partial is the crate documentation's partial key (lib.rs:54-65), a
\* wider integer of which only the two low bytes are levels, ordered (Ord)
\* as the integer it is; Zero declares no level at all.
IntKeyTypes == {"u8", "u16", "u32", "u64", "u128", "usize"}
KeyTypes == IntKeyTypes \cup {"u8_array", "Partial", "Zero"}

\* N of [u8; N].
ArrayLen == 3

LEVELS(T) ==
    CASE T = "u8" -> 1
      [] T = "u16" -> 2
      [] T = "u32" -> 4
      [] T = "u64" -> 8
      [] T = "u128" -> 16
      [] T = "usize" -> 8
      [] T = "u8_array" -> ArrayLen
      [] T = "Partial" -> 2
      [] T = "Zero" -> 0

\* self >> (n * 8)
ShrBytes(x, n) == x \div Pow(Radix, n)
\* x as u8
AsU8(x) == x % Radix

\* get_level with the shift `level * 8`: level 0 the least significant byte.
get_level_lsb_first(T, x, level) ==
    IF T = "Zero" THEN 0
    ELSE IF T = "u8" THEN x
    ELSE IF T = "u8_array" THEN x[level + 1]
    ELSE AsU8(ShrBytes(x, level))

\* get_level of u8 (`*self`, truncated) for every integer.
get_level_low_byte(T, x, level) ==
    IF T = "Zero" THEN 0
    ELSE IF T = "u8_array" THEN x[level + 1]
    ELSE AsU8(x)

get_level(T, x, level) ==
    CASE T = "u8" -> x
      [] T \in {"u16", "u32", "u64", "u128", "usize"} ->
             AsU8(ShrBytes(x, LEVELS(T) - 1 - level))
      [] T = "u8_array" -> x[level + 1]
      [] T = "Partial" -> AsU8(ShrBytes(x, LEVELS(T) - 1 - level))
      [] T = "Zero" -> 0

\* Ord of the element type: the integers' numeric order, for Partial too.
OrdLe(T, a, b) == a <= b

\* ------------------------------------------------------ slice helpers ---
\* s[a..b] of the source (0-based, half open).
Slice(s, a, b) == SubSeq(s, a + 1, b)

RECURSIVE Insert(_, _, _)
Insert(T, s, x) ==
    IF s = <<>> THEN <<x>>
    ELSE IF OrdLe(T, x, Head(s)) THEN <<x>> \o s
    ELSE <<Head(s)>> \o Insert(T, Tail(s), x)

RECURSIVE sort_unstable(_, _)
\* slice::sort_unstable: the slice in ascending Ord order.
sort_unstable(T, s) ==
    IF s = <<>> THEN <<>> ELSE Insert(T, sort_unstable(T, Tail(s)), Head(s))

ZeroCounts == [b \in Bytes |-> 0]

\* ----------------------------------------------------------- lib.rs -----
calculate_position(msb, level, bucket) ==
    (Radix * Radix * level) + (Radix * bucket) + msb

RECURSIVE SumTo(_, _)
SumTo(counts, i) == IF i = 0 THEN 0 ELSE SumTo(counts, i - 1) + counts[i - 1]

\* sums[i] = the running total before counts[i].
get_prefix_sums(counts) == [i \in DOMAIN counts |-> SumTo(counts, i)]

CountMapLen(T) == LEVELS(T) * Radix * Radix
get_count_map(T) == [p \in 0 .. (CountMapLen(T) - 1) |-> 0]

RECURSIVE CountLevels(_, _, _, _, _)
\* for i in 1..T::LEVELS { lsb_counts[calculate_position(msb, i - 1, b)] += 1 }
CountLevels(T, v, msb, i, lsb) ==
    IF i >= LEVELS(T) THEN lsb
    ELSE LET pos == calculate_position(msb, i - 1, get_level(T, v, i))
         IN  CountLevels(T, v, msb, i + 1, [lsb EXCEPT ![pos] = @ + 1])

RECURSIVE CountFrom(_, _, _, _)
CountFrom(T, bucket, k, acc) ==
    IF k > Len(bucket) THEN acc
    ELSE LET v == bucket[k]
             msb == get_level(T, v, 0)
         IN  CountFrom(T, bucket, k + 1,
                 [msb |-> [acc.msb EXCEPT ![msb] = @ + 1],
                  lsb |-> CountLevels(T, v, msb, 1, acc.lsb)])

get_all_counts(T, bucket) ==
    CountFrom(T, bucket, 1, [msb |-> ZeroCounts, lsb |-> get_count_map(T)])

\* bucket.par_chunks(chunk_size): the chunks (as sequences), in order.
RECURSIVE par_chunks(_, _)
par_chunks(s, size) ==
    IF Len(s) = 0 THEN <<>>
    ELSE IF Len(s) <= size THEN <<s>>
    ELSE <<SubSeq(s, 1, size)>> \o par_chunks(SubSeq(s, size + 1, Len(s)), size)

AddCounts(a, b) == [i \in DOMAIN a |-> a[i] + b[i]]
ReducePair(x, y) == [msb |-> AddCounts(x.msb, y.msb), lsb |-> AddCounts(x.lsb, y.lsb)]

RECURSIVE ReduceAll(_, _, _)
ReduceAll(T, parts, acc) ==
    IF parts = <<>> THEN acc
    ELSE ReduceAll(T, Tail(parts), ReducePair(acc, Head(parts)))

\* Every chunk is counted as get_all_counts counts (8 at a time, then the
\* remainder) and the chunk results are reduced column-wise.
par_get_all_counts(T, bucket) ==
    LET chunk_size == (Len(bucket) \div NumCpus) + 1
        chunks == par_chunks(bucket, chunk_size)
        parts == [c \in DOMAIN chunks |-> get_all_counts(T, chunks[c])]
    IN  ReduceAll(T, parts, [msb |-> ZeroCounts, lsb |-> get_count_map(T)])

get_tmp_bucket(len) == [i \in 1 .. len |-> Uninit]

RECURSIVE ScatterNoAdvance(_, _, _, _, _, _)
\* Scatter without `*sum += 1`: every element of a byte lands on one slot.
ScatterNoAdvance(T, bucket, k, level, sums, tmp) ==
    IF k > Len(bucket) THEN [ok |-> TRUE, tmp |-> tmp]
    ELSE LET b == get_level(T, bucket[k], level)
             at == sums[b]
         IN  IF at >= Len(tmp) THEN [ok |-> FALSE, tmp |-> tmp]
             ELSE ScatterNoAdvance(T, bucket, k + 1, level, sums,
                                   [tmp EXCEPT ![at + 1] = bucket[k]])

RECURSIVE ScatterRev(_, _, _, _, _, _)
\* Scatter walking the source from its last element to its first.
ScatterRev(T, bucket, k, level, sums, tmp) ==
    IF k > Len(bucket) THEN [ok |-> TRUE, tmp |-> tmp]
    ELSE LET v == bucket[Len(bucket) + 1 - k]
             b == get_level(T, v, level)
             at == sums[b]
         IN  IF at >= Len(tmp) THEN [ok |-> FALSE, tmp |-> tmp]
             ELSE ScatterRev(T, bucket, k + 1, level,
                             [sums EXCEPT ![b] = @ + 1],
                             [tmp EXCEPT ![at + 1] = v])

RECURSIVE Scatter(_, _, _, _, _, _)
\* bucket.iter().for_each(|val| { tmp[sums[byte]] = *val; sums[byte] += 1 })
\* ok is FALSE once a write falls outside tmp.
Scatter(T, bucket, k, level, sums, tmp) ==
    IF k > Len(bucket) THEN [ok |-> TRUE, tmp |-> tmp]
    ELSE LET b == get_level(T, bucket[k], level)
             at == sums[b]
         IN  IF at >= Len(tmp) THEN [ok |-> FALSE, tmp |-> tmp]
             ELSE Scatter(T, bucket, k + 1, level,
                          [sums EXCEPT ![b] = @ + 1],
                          [tmp EXCEPT ![at + 1] = bucket[k]])

\* The position lsb_radix_sort_bucket reads its count from, or -1 where the
\* build panics: level - 1 with level = 0 panics under overflow checks, and
\* wraps without them.
LsbCountPosition(checks, msb, level, i) ==
    IF level >= 1 THEN calculate_position(msb, level - 1, i)
    ELSE IF checks THEN 0 - 1
    ELSE wrapping_add(wrapping_add(
             wrapping_mul(Radix * Radix, wrapping_sub(level, 1)),
             Radix * i), msb)

RECURSIVE lsb_radix_sort_bucket(_, _, _, _, _, _, _)
\* The result: st is "ok" (bucket is the chunk afterwards), "panic" (an
\* overflow check or a bounds check failed; bucket as it was then) or "ub"
\* (an unchecked write outside tmp_bucket).
lsb_radix_sort_bucket(T, checks, bucket, tmp_bucket, level, msb, counts) ==
    IF Len(bucket) < SortThreshold
    THEN [st |-> "ok", bucket |-> sort_unstable(T, bucket)]
    ELSE LET pos == [i \in Bytes |-> LsbCountPosition(checks, msb, level, i)]
             bad == \E i \in Bytes : pos[i] < 0 \/ pos[i] >= CountMapLen(T)
         IN  IF bad THEN [st |-> "panic", bucket |-> bucket]
             ELSE LET local_counts == [i \in Bytes |-> counts[pos[i]]]
                      prefix_sums == get_prefix_sums(local_counts)
                      sc == Scatter(T, bucket, 1, level, prefix_sums, tmp_bucket)
                  IN  IF ~sc.ok THEN [st |-> "ub", bucket |-> bucket]
                      ELSE IF level = 1 THEN [st |-> "ok", bucket |-> sc.tmp]
                      ELSE lsb_radix_sort_bucket(T, checks, sc.tmp, sc.tmp,
                                                 level - 1, msb, counts)

\* bucket with the elements from 0-based index `at` on replaced by `part`.
WriteAt(bucket, at, part) ==
    [k \in 1 .. Len(bucket) |->
        IF k > at /\ k <= at + Len(part) THEN part[k - at] ELSE bucket[k]]

\* ----------------------------------------------- scanning sort (lib.rs) --
Workers == 1 .. NumCpus

NewWorker(pivot) ==
    [pc |-> "want", pivot |-> pivot, cur |-> pivot,
     stash |-> [b \in Bytes |-> <<>>],
     finished_count |-> 0,
     finished_map |-> [b \in Bytes |-> FALSE]]

get_scanner_buckets(msb_counts) ==
    [b \in Bytes |-> [write_head |-> 0, read_head |-> 0, len |-> msb_counts[b]]]

\* A read that stashes only the first element it was given.
StashFirst(T, read_data, stash) ==
    IF read_data = <<>> THEN stash
    ELSE [stash EXCEPT ![get_level(T, Head(read_data), 0)] =
              Append(@, Head(read_data))]

RECURSIVE StashAll(_, _, _)
\* stash[get_level(v, 0)].push(*v) for every element read, in order.
StashAll(T, read_data, stash) ==
    IF read_data = <<>> THEN stash
    ELSE LET a == get_level(T, Head(read_data), 0)
         IN  StashAll(T, Tail(read_data), [stash EXCEPT ![a] = Append(@, Head(read_data))])

\* A for loop that never moves on to the next bucket.
NextUnfinishedSame(finished_map, i, fuel) == i

RECURSIVE NextUnfinished(_, _, _)
\* The for loop's next index that finished_map does not skip: the rotation
\* pivot .. Radix-1, 0 .. pivot-1 restarted by the outer loop is cyclic.
NextUnfinished(finished_map, i, fuel) ==
    LET n == (i + 1) % Radix
    IN  IF fuel = 0 \/ ~finished_map[n] THEN n
        ELSE NextUnfinished(finished_map, n, fuel - 1)

\* The iteration with to_write bounded by the slab instead of read_head.
ScanVisitOverrun(T, w, g, base, i, bucket) ==
    IF g.write_head >= g.len
    THEN [g |-> g, bucket |-> bucket, stash |-> w.stash, finished |-> TRUE]
    ELSE LET read_start == g.read_head
             to_read == Min(g.len - read_start, ScannerReadSize)
             read_data == IF to_read > 0
                          THEN Slice(bucket, base + g.read_head,
                                     base + g.read_head + to_read)
                          ELSE <<>>
             stash1 == StashAll(T, read_data, w.stash)
             read_head1 == IF to_read > 0 THEN g.read_head + to_read ELSE g.read_head
             to_write == Min(Len(stash1[i]), g.len - g.write_head)
         IN  IF to_write < 1
             THEN [g |-> [g EXCEPT !.read_head = read_head1], bucket |-> bucket,
                   stash |-> stash1, finished |-> FALSE]
             ELSE LET split == Len(stash1[i]) - to_write
                      some == SubSeq(stash1[i], split + 1, Len(stash1[i]))
                      write_head1 == g.write_head + to_write
                  IN  [g |-> [g EXCEPT !.read_head = read_head1,
                                       !.write_head = write_head1],
                       bucket |-> WriteAt(bucket, base + g.write_head, some),
                       stash |-> [stash1 EXCEPT ![i] = SubSeq(@, 1, split)],
                       finished |-> write_head1 >= g.len]

\* One iteration of the worker's for loop under the guard of bucket i.
\* g is the scanner bucket, base the offset of its chunk in the slice.
ScanVisit(T, w, g, base, i, bucket) ==
    IF g.write_head >= g.len
    THEN [g |-> g, bucket |-> bucket, stash |-> w.stash, finished |-> TRUE]
    ELSE LET read_start == g.read_head
             to_read == Min(g.len - read_start, ScannerReadSize)
             read_data == IF to_read > 0
                          THEN Slice(bucket, base + g.read_head,
                                     base + g.read_head + to_read)
                          ELSE <<>>
             stash1 == StashAll(T, read_data, w.stash)
             read_head1 == IF to_read > 0 THEN g.read_head + to_read ELSE g.read_head
             to_write == Min(Len(stash1[i]), read_head1 - g.write_head)
         IN  IF to_write < 1
             THEN [g |-> [g EXCEPT !.read_head = read_head1], bucket |-> bucket,
                   stash |-> stash1, finished |-> FALSE]
             ELSE LET split == Len(stash1[i]) - to_write
                      some == SubSeq(stash1[i], split + 1, Len(stash1[i]))
                      write_head1 == g.write_head + to_write
                  IN  [g |-> [g EXCEPT !.read_head = read_head1,
                                       !.write_head = write_head1],
                       bucket |-> WriteAt(bucket, base + g.write_head, some),
                       stash |-> [stash1 EXCEPT ![i] = SubSeq(@, 1, split)],
                       finished |-> write_head1 >= g.len]

\* ------------------------------------------------------- the sort -------
VARIABLES
    T,          \* the element type of the slice
    checks,     \* the build's overflow checks (debug: TRUE)
    input,      \* the slice as it was handed to the first call
    bucket,     \* the slice
    pc,         \* where the call is: entry, start, scatter, scan, workers,
                \* tasks, returned, panicked, ub
    call,       \* 1: the call on the input; 2: the call on the first output
    first_out,  \* the slice as the first call returned it
    counts,     \* (msb_counts, lsb_counts) of radix_sort_bucket_start
    fresh_tmp,  \* the per-MSB passes get their own get_tmp_bucket (scanning)
    sb,         \* the scanner buckets
    lock,       \* the scanner buckets' mutexes: 0, the worker holding it,
                \* or Poisoned
    wk,         \* the scanning workers
    tasks       \* the MSB chunks whose lsb_radix_sort_bucket has not run

sortvars == <<T, checks, input, bucket, pc, call, first_out, counts,
              fresh_tmp, sb, lock, wk, tasks>>

\* The state of the crate's other entry points, which a sort leaves alone.
VARIABLES
    p,          \* the TuningParams handed to the tuner
    tcounts,    \* the histogram handed to the tuner
    alg         \* the Algorithm it returned ("None" before the call)

tunervars == <<p, tcounts, alg>>

VARIABLES
    key_type,   \* the integer type whose get_level is called
    key_self,   \* self
    key_level,  \* level
    key_byte    \* the u8 it returned (Uninit before the call)

keyvars == <<key_type, key_self, key_level, key_byte>>

VARIABLES
    cnt_fn,      \* the counting function called: par_get_counts,
                 \* par_get_all_counts, or get_tile_counts followed by
                 \* aggregate_tile_counts
    cnt_T,       \* the element type
    cnt_bucket,  \* bucket
    cnt_level,   \* level
    tile_size,   \* tile_size
    cnt_pc,      \* start, running, reducing, collected, done, panicked
    jobs,        \* the par_get_counts calls in progress, one per tile
    parts,       \* par_get_all_counts: the chunks, mapped or not, not yet
                 \* reduced into one
    tile_counts, \* what get_tile_counts collected
    cnt_out      \* the histogram returned

countvars == <<cnt_fn, cnt_T, cnt_bucket, cnt_level, tile_size, cnt_pc, jobs,
               parts, tile_counts, cnt_out>>

VARIABLES
    mt_T,        \* the element type
    mt_input,    \* the slice as it was handed to mt_lsb_sort_adapter
    mt_bucket,   \* bucket
    mt_tmp,      \* tmp_bucket
    start_level, \* start_level
    end_level,   \* end_level
    mt_tile,     \* tile_size
    mt_level,    \* the level the loop over `levels` is at
    invert,      \* invert
    mt_counts,   \* tile_counts of the pass in progress
    mt_left,     \* the tiles the pass in progress has not scattered yet
    mt_pc        \* call, levels, scatter, copy, done, panicked

mtvars == <<mt_T, mt_input, mt_bucket, mt_tmp, start_level, end_level,
            mt_tile, mt_level, invert, mt_counts, mt_left, mt_pc>>

VARIABLES
    op_fn,        \* the function of sort_utils.rs or out_of_place_sort.rs called
    op_T,         \* the element type of its slice
    op_src,       \* the slice it is handed
    op_level,     \* its level
    op_counts,    \* the 256-histogram it is handed
    op_dst,       \* the destination buffer, or the slice as the call left it
    op_writes,    \* the destination slots assigned (from 1), in order
    op_next,      \* the histogram out_of_place_sort_with_counts returns
    op_sums,      \* the prefix sums returned
    op_ends,      \* the end offsets returned
    op_plateaus,  \* the plateaus of detect_plateaus
    op_pc         \* idle, call, counted, done, panicked

opvars == <<op_fn, op_T, op_src, op_level, op_counts, op_dst, op_writes,
            op_next, op_sums, op_ends, op_plateaus, op_pc>>

\* What each entry point leaves alone.
nonsortvars == <<tunervars, keyvars, countvars, mtvars, opvars>>
nontunervars == <<sortvars, keyvars, countvars, mtvars, opvars>>
nonkeyvars == <<sortvars, tunervars, countvars, mtvars, opvars>>
noncountvars == <<sortvars, tunervars, keyvars, mtvars, opvars>>
nonmtvars == <<sortvars, tunervars, keyvars, countvars, opvars>>
nonopvars == <<sortvars, tunervars, keyvars, countvars, mtvars>>

\* All of it.
vars == <<sortvars, tunervars, keyvars, countvars, mtvars, opvars>>

SortKeyTypes == {"u8", "u16", "u32", "Partial", "Zero"}

\* The values a slice is filled from, in a fixed order.
ElemSeq(K) ==
    CASE K = "u8" -> <<0, 1, Radix - 1>>
      [] K = "u16" -> <<0, 1, Radix, Radix + 1>>
      [] K = "u32" -> <<0, 1, Radix, Radix * Radix, Pow(Radix, 3)>>
      [] K = "Partial" -> <<0, 1, Radix, Radix * Radix, Radix * Radix + Radix>>
      [] K = "Zero" -> <<0, 1>>

RECURSIVE SeqsOfLen(_, _)
SeqsOfLen(S, n) ==
    IF n = 0 THEN {<<>>}
    ELSE {Append(s, x) : s \in SeqsOfLen(S, n - 1), x \in S}

Range(s) == {s[i] : i \in DOMAIN s}

\* Slices longer than the comparison threshold: arithmetic progressions
\* through ElemSeq (constant, ascending, descending, strided) and two-valued
\* step slices.
CycleSeq(E, n, a, c) == [i \in 1 .. n |-> E[((a * i + c) % Len(E)) + 1]]
StepSeq(n, j, x, y) == [i \in 1 .. n |-> IF i <= j THEN x ELSE y]

Inputs(K) ==
    LET E == ElemSeq(K)
    IN  UNION {SeqsOfLen(Range(E), n) : n \in 0 .. SortThreshold}
        \cup {CycleSeq(E, n, a, c) :
                 n \in (SortThreshold + 1) .. MaxLen,
                 a \in 0 .. (Len(E) - 1), c \in 0 .. (Len(E) - 1)}
        \cup {StepSeq(n, j, x, y) :
                 n \in (SortThreshold + 1) .. ScanThreshold, j \in 1 .. (ScanThreshold - 1),
                 x \in Range(E), y \in Range(E)}

NoCounts == [msb |-> ZeroCounts, lsb |-> <<>>]
IdleWorkers == [w \in Workers |-> NewWorker(0)]
IdleLocks == [b \in Bytes |-> 0]

SortInit ==
    /\ T \in SortKeyTypes
    /\ checks \in BOOLEAN
    /\ input \in Inputs(T)
    /\ bucket = input
    /\ pc = "entry"
    /\ call = 1
    /\ first_out = <<>>
    /\ counts = NoCounts
    /\ fresh_tmp = FALSE
    /\ sb = get_scanner_buckets(ZeroCounts)
    /\ lock = IdleLocks
    /\ wk = IdleWorkers
    /\ tasks = {}

\* radix_sort_inner without its LEVELS == 0 test.
radix_sort_inner_unchecked ==
    /\ pc = "entry"
    /\ pc' = "start"
    /\ UNCHANGED <<T, checks, input, bucket, call, first_out, counts,
                   fresh_tmp, sb, lock, wk, tasks>>
    /\ UNCHANGED nonsortvars

\* radix_sort_unstable -> radix_sort_inner
radix_sort_inner ==
    /\ pc = "entry"
    /\ pc' = IF LEVELS(T) = 0 THEN "panicked" ELSE "start"
    /\ UNCHANGED <<T, checks, input, bucket, call, first_out, counts,
                   fresh_tmp, sb, lock, wk, tasks>>
    /\ UNCHANGED nonsortvars

radix_sort_bucket_start ==
    /\ pc = "start"
    /\ IF Len(bucket) < SortThreshold
       THEN /\ bucket' = sort_unstable(T, bucket)
            /\ pc' = "returned"
            /\ UNCHANGED counts
       ELSE /\ counts' = IF Len(bucket) > ParCountThreshold
                         THEN par_get_all_counts(T, bucket)
                         ELSE get_all_counts(T, bucket)
            /\ pc' = IF Len(bucket) > ScanThreshold THEN "scan" ELSE "scatter"
            /\ UNCHANGED bucket
    /\ UNCHANGED <<T, checks, input, call, first_out, fresh_tmp, sb, lock, wk, tasks>>
    /\ UNCHANGED nonsortvars

\* radix_sort_bucket up to the parallel per-MSB passes: the level 0 scatter
\* into tmp_bucket (a checked index) and the copy back.
radix_sort_bucket ==
    /\ pc = "scatter"
    /\ LET sc == Scatter(T, bucket, 1, 0, get_prefix_sums(counts.msb),
                         get_tmp_bucket(Len(bucket)))
       IN  IF sc.ok
           THEN /\ bucket' = sc.tmp
                /\ tasks' = Bytes
                /\ pc' = "tasks"
           ELSE /\ pc' = "panicked"
                /\ UNCHANGED <<bucket, tasks>>
    /\ fresh_tmp' = FALSE
    /\ UNCHANGED <<T, checks, input, call, first_out, counts, sb, lock, wk>>
    /\ UNCHANGED nonsortvars

\* scanning_radix_sort_bucket up to the spawn of the workers, each with
\* its own random pivot.
scanning_radix_sort_bucket ==
    /\ pc = "scan"
    /\ sb' = get_scanner_buckets(counts.msb)
    /\ lock' = IdleLocks
    /\ \E pivots \in [Workers -> Bytes] :
           wk' = [w \in Workers |-> NewWorker(pivots[w])]
    /\ pc' = "workers"
    /\ UNCHANGED <<T, checks, input, bucket, call, first_out, counts, fresh_tmp, tasks>>
    /\ UNCHANGED nonsortvars

\* m.lock().unwrap(): the worker waits until the mutex of its bucket is
\* free; the unwrap of a poisoned mutex panics.
WorkerLock(w) ==
    /\ pc = "workers"
    /\ wk[w].pc = "want"
    /\ lock[wk[w].cur] \in {0, Poisoned}
    /\ IF lock[wk[w].cur] = Poisoned
       THEN /\ wk' = [wk EXCEPT ![w].pc = "panicked"]
            /\ UNCHANGED lock
       ELSE /\ lock' = [lock EXCEPT ![wk[w].cur] = w]
            /\ wk' = [wk EXCEPT ![w].pc = "held"]
    /\ UNCHANGED <<T, checks, input, bucket, pc, call, first_out, counts,
                   fresh_tmp, sb, tasks>>
    /\ UNCHANGED nonsortvars

\* The caller's get_level panics while the worker reads under the guard:
\* the worker unwinds before it moves read_head, and the guard's drop
\* poisons the mutex.
WorkerPanic(w) ==
    /\ pc = "workers"
    /\ wk[w].pc = "held"
    /\ LET g == sb[wk[w].cur]
       IN  /\ g.write_head < g.len
           /\ Min(g.len - g.read_head, ScannerReadSize) > 0
    /\ wk' = [wk EXCEPT ![w].pc = "panicked"]
    /\ lock' = [lock EXCEPT ![wk[w].cur] = Poisoned]
    /\ UNCHANGED <<T, checks, input, bucket, pc, call, first_out, counts,
                   fresh_tmp, sb, tasks>>
    /\ UNCHANGED nonsortvars

\* The body of the for loop with a guard that is never dropped.
WorkerVisitKeepGuard(w) ==
    /\ pc = "workers"
    /\ wk[w].pc = "held"
    /\ LET i == wk[w].cur
           base == get_prefix_sums(counts.msb)[i]
           r == ScanVisit(T, wk[w], sb[i], base, i, bucket)
           fc == IF r.finished THEN wk[w].finished_count + 1 ELSE wk[w].finished_count
           fm == IF r.finished THEN [wk[w].finished_map EXCEPT ![i] = TRUE]
                 ELSE wk[w].finished_map
           done == r.finished /\ fc = Radix
       IN  /\ sb' = [sb EXCEPT ![i] = r.g]
           /\ bucket' = r.bucket
           /\ wk' = [wk EXCEPT ![w] =
                  [pc |-> IF done THEN "exited" ELSE "want",
                   pivot |-> wk[w].pivot,
                   cur |-> IF done THEN i ELSE NextUnfinished(fm, i, Radix),
                   stash |-> r.stash,
                   finished_count |-> fc,
                   finished_map |-> fm]]
           /\ UNCHANGED lock
    /\ UNCHANGED <<T, checks, input, pc, call, first_out, counts, fresh_tmp, tasks>>
    /\ UNCHANGED nonsortvars

\* The body of the for loop under the guard, to the guard's drop.
WorkerVisit(w) ==
    /\ pc = "workers"
    /\ wk[w].pc = "held"
    /\ LET i == wk[w].cur
           base == get_prefix_sums(counts.msb)[i]
           r == ScanVisit(T, wk[w], sb[i], base, i, bucket)
           fc == IF r.finished THEN wk[w].finished_count + 1 ELSE wk[w].finished_count
           fm == IF r.finished THEN [wk[w].finished_map EXCEPT ![i] = TRUE]
                 ELSE wk[w].finished_map
           done == r.finished /\ fc = Radix
       IN  /\ sb' = [sb EXCEPT ![i] = r.g]
           /\ bucket' = r.bucket
           /\ wk' = [wk EXCEPT ![w] =
                  [pc |-> IF done THEN "exited" ELSE "want",
                   pivot |-> wk[w].pivot,
                   cur |-> IF done THEN i ELSE NextUnfinished(fm, i, Radix),
                   stash |-> r.stash,
                   finished_count |-> fc,
                   finished_map |-> fm]]
           /\ lock' = [lock EXCEPT ![i] = 0]
    /\ UNCHANGED <<T, checks, input, pc, call, first_out, counts, fresh_tmp, tasks>>
    /\ UNCHANGED nonsortvars

\* tp.scope that returns normally whatever became of its workers.
ScopeJoinSwallow ==
    /\ pc = "workers"
    /\ \A w \in Workers : wk[w].pc \in {"exited", "panicked"}
    /\ tasks' = Bytes
    /\ fresh_tmp' = TRUE
    /\ pc' = "tasks"
    /\ UNCHANGED <<T, checks, input, bucket, call, first_out, counts, sb, lock, wk>>
    /\ UNCHANGED nonsortvars

\* tp.scope returns when every worker has ended, and resumes the panic of
\* a worker that panicked.
ScopeJoin ==
    /\ pc = "workers"
    /\ \A w \in Workers : wk[w].pc \in {"exited", "panicked"}
    /\ IF \E w \in Workers : wk[w].pc = "panicked"
       THEN /\ pc' = "panicked"
            /\ UNCHANGED <<tasks, fresh_tmp>>
       ELSE /\ tasks' = Bytes
            /\ fresh_tmp' = TRUE
            /\ pc' = "tasks"
    /\ UNCHANGED <<T, checks, input, bucket, call, first_out, counts, sb, lock, wk>>
    /\ UNCHANGED nonsortvars

\* One per-MSB pass of the par_bridge: lsb_radix_sort_bucket on chunk msb.
LsbTask(msb) ==
    /\ pc = "tasks"
    /\ msb \in tasks
    /\ LET base == get_prefix_sums(counts.msb)[msb]
           c == Slice(bucket, base, base + counts.msb[msb])
           t == IF fresh_tmp THEN get_tmp_bucket(Len(c)) ELSE c
           r == lsb_radix_sort_bucket(T, checks, c, t, LEVELS(T) - 1, msb, counts.lsb)
       IN  IF r.st = "ok"
           THEN /\ bucket' = WriteAt(bucket, base, r.bucket)
                /\ tasks' = tasks \ {msb}
                /\ pc' = pc
           ELSE /\ pc' = IF r.st = "panic" THEN "panicked" ELSE "ub"
                /\ UNCHANGED <<bucket, tasks>>
    /\ UNCHANGED <<T, checks, input, call, first_out, counts, fresh_tmp, sb, lock, wk>>
    /\ UNCHANGED nonsortvars

\* The for_each over the chunks is done: the call returns.
Return ==
    /\ pc = "tasks"
    /\ tasks = {}
    /\ pc' = "returned"
    /\ UNCHANGED <<T, checks, input, bucket, call, first_out, counts,
                   fresh_tmp, sb, lock, wk, tasks>>
    /\ UNCHANGED nonsortvars

\* The caller sorts the returned slice once more.
SecondCall ==
    /\ pc = "returned"
    /\ call = 1
    /\ call' = 2
    /\ first_out' = bucket
    /\ pc' = "entry"
    /\ UNCHANGED <<T, checks, input, bucket, counts, fresh_tmp, sb, lock, wk, tasks>>
    /\ UNCHANGED nonsortvars

SortNext ==
    \/ radix_sort_inner
    \/ radix_sort_bucket_start
    \/ radix_sort_bucket
    \/ scanning_radix_sort_bucket
    \/ \E w \in Workers : WorkerLock(w)
    \/ \E w \in Workers : WorkerVisit(w)
    \/ ScopeJoin
    \/ \E msb \in Bytes : LsbTask(msb)
    \/ Return
    \/ SecondCall

\* ------------------------------------------------------ tuner.rs ------
TunerIdle ==
    /\ p = [threads |-> 0, level |-> 0, total_levels |-> 0, input_len |-> 0,
             parent_len |-> 0, in_place |-> FALSE]
    /\ tcounts = ZeroCounts
    /\ alg = "None"

\* let depth = p.total_levels - p.level - 1;
Depth(q) == q.total_levels - q.level - 1

\* `c >= distribution_threshold` with `>` in its place.
IsDistributedStrict(q, cs) ==
    /\ q.input_len >= 5000
    /\ \E b \in DOMAIN cs : cs[b] > (q.input_len \div 256) * 2

\* if p.input_len >= 5_000 { ... for c in counts { if *c >= threshold
IsDistributed(q, cs) ==
    /\ q.input_len >= 5000
    /\ \E b \in DOMAIN cs : cs[b] >= (q.input_len \div 256) * 2

pick_algorithm_standard(q, cs) ==
    IF q.input_len <= 128 THEN "ComparativeSort"
    ELSE IF IsDistributed(q, cs)
    THEN IF Depth(q) = 0
         THEN CASE q.input_len <= 200000 -> "LrLsbSort"
                [] q.input_len \in 200001 .. 350000 -> "SkaSort"
                [] q.input_len \in 350001 .. 4000000 -> "MtLsbSort"
                [] q.input_len >= 4000001 -> "RegionsSort"
         ELSE CASE q.input_len <= 200000 -> "LrLsbSort"
                [] q.input_len \in 200001 .. 800000 -> "SkaSort"
                [] q.input_len \in 800001 .. 5000000 -> "RecombinatingSort"
                [] q.input_len >= 5000001 -> "RegionsSort"
    ELSE IF Depth(q) > 0
         THEN CASE q.input_len <= 200000 -> "LsbSort"
                [] q.input_len \in 200001 .. 800000 -> "SkaSort"
                [] q.input_len \in 800001 .. 50000000 -> "RecombinatingSort"
                [] q.input_len >= 50000001 -> "ScanningSort"
         ELSE CASE q.input_len <= 150000 -> "LsbSort"
                [] q.input_len \in 150001 .. 260000 -> "SkaSort"
                [] q.input_len \in 260001 .. 50000000 -> "RecombinatingSort"
                [] q.input_len >= 50000001 -> "ScanningSort"

\* pick_algorithm_in_place with the standard table's large regimes left in
\* its last match.
pick_algorithm_in_place_pasted(q, cs) ==
    IF q.input_len <= 128 THEN "ComparativeSort"
    ELSE IF IsDistributed(q, cs)
    THEN CASE q.input_len <= 50000 -> "LrLsbSort"
           [] q.input_len \in 50001 .. 1000000 -> "SkaSort"
           [] q.input_len >= 1000001 -> "RegionsSort"
    ELSE IF Depth(q) = 0
         THEN CASE q.input_len <= 50000 -> "LsbSort"
                [] q.input_len \in 50001 .. 1000000 -> "SkaSort"
                [] q.input_len >= 1000001 -> "RegionsSort"
         ELSE CASE q.input_len <= 50000 -> "LsbSort"
                [] q.input_len \in 50001 .. 800000 -> "SkaSort"
                [] q.input_len \in 800001 .. 50000000 -> "RecombinatingSort"
                [] q.input_len >= 50000001 -> "ScanningSort"

pick_algorithm_in_place(q, cs) ==
    IF q.input_len <= 128 THEN "ComparativeSort"
    ELSE IF IsDistributed(q, cs)
    THEN IF Depth(q) = 0
         THEN CASE q.input_len <= 50000 -> "LrLsbSort"
                [] q.input_len \in 50001 .. 1000000 -> "SkaSort"
                [] q.input_len >= 1000001 -> "RegionsSort"
         ELSE CASE q.input_len <= 50000 -> "LrLsbSort"
                [] q.input_len \in 50001 .. 1000000 -> "SkaSort"
                [] q.input_len >= 1000001 -> "RegionsSort"
    ELSE IF Depth(q) = 0
         THEN CASE q.input_len <= 50000 -> "LsbSort"
                [] q.input_len \in 50001 .. 1000000 -> "SkaSort"
                [] q.input_len >= 1000001 -> "RegionsSort"
         ELSE CASE q.input_len <= 50000 -> "LsbSort"
                [] q.input_len \in 50001 .. 1000000 -> "SkaSort"
                [] q.input_len >= 1000001 -> "RegionsSort"

\* The input lengths around every threshold of the two tables, up to the
\* largest TLC's integers hold.
TunerLens ==
    {0, 1, 128, 129, 4999, 5000, 5001, 50000, 50001, 150000, 150001,
     200000, 200001, 260000, 260001, 350000, 350001, 800000, 800001,
     1000000, 1000001, 4000000, 4000001, 5000000, 5000001,
     50000000, 50000001, 2000000000}

\* The deepest key the tuner is asked about.
MaxTotalLevels == 3

\* Histograms for an input length: empty, flat, and one count just below, at
\* and above the distribution threshold, or the whole input.
TunerCounts(len) ==
    LET thr == (len \div 256) * 2
    IN  {ZeroCounts}
        \cup {[b \in Bytes |-> IF b = k THEN m ELSE o] :
                 k \in Bytes, o \in {0, 1},
                 m \in {x \in {thr - 1, thr, thr + 1, len} : x >= 0}}

TunerInit ==
    /\ \E len \in TunerLens, tl \in 1 .. MaxTotalLevels, ip \in BOOLEAN :
         \E l \in 0 .. (tl - 1) :
           /\ p = [threads |-> NumCpus, level |-> l, total_levels |-> tl,
                    input_len |-> len, parent_len |-> len, in_place |-> ip]
           /\ tcounts \in TunerCounts(len)
    /\ alg = "None"

\* Tuner::pick_algorithm
pick_algorithm ==
    /\ alg = "None"
    /\ alg' = IF p.in_place THEN pick_algorithm_in_place(p, tcounts)
               ELSE pick_algorithm_standard(p, tcounts)
    /\ UNCHANGED <<p, tcounts>>
    /\ UNCHANGED nontunervars

TunerNext == pick_algorithm

\* ---------------------------------------------- radix_key_impl.rs ------
KeyIdle ==
    /\ key_type = "u8"
    /\ key_self = 0
    /\ key_level = 0
    /\ key_byte = Uninit

\* The values of an integer type TLC's integers hold: the values of
\* its two low bytes, and the values with one byte set to 1, alone, next to
\* its neighbour, or together with the top byte.
KeyValues(K) ==
    LET n == LEVELS(K)
    IN  (0 .. (Pow(Radix, Min(n, 2)) - 1))
        \cup {Pow(Radix, i) : i \in 0 .. (n - 1)}
        \cup {Pow(Radix, i) + Pow(Radix, j) : i \in 0 .. (n - 2), j \in {n - 1}}
        \cup {Pow(Radix, i) + Pow(Radix, i + 1) : i \in 0 .. (n - 2)}

\* Every [u8; N].
ArrayValues == [1 .. ArrayLen -> Bytes]

KeyInit ==
    /\ key_type \in IntKeyTypes \cup {"u8_array"}
    /\ key_self \in IF key_type = "u8_array" THEN ArrayValues
                     ELSE KeyValues(key_type)
    /\ key_level \in 0 .. (LEVELS(key_type) - 1)
    /\ key_byte = Uninit

\* <integer or [u8; N] as RadixKey>::get_level
get_level_call ==
    /\ key_byte = Uninit
    /\ key_byte' = get_level(key_type, key_self, key_level)
    /\ UNCHANGED <<key_type, key_self, key_level>>
    /\ UNCHANGED nonkeyvars

KeyNext == get_level_call

\* ------------------------------------------------ utils/sort_utils.rs ---
\* `if v.len() < 400_000` of par_get_counts, scaled.
ParGetCountsThreshold == 4
\* chunk_divisor of par_get_counts (8), scaled.
ChunkDivisor == 1
\* rayon::current_num_threads()
Threads == 3

\* The four accumulators of get_counts after its chunks_exact(4) loop.
RECURSIVE CountChunksExact(_, _, _, _, _)
CountChunksExact(K, v, level, k, acc) ==
    IF 4 * (k + 1) > Len(v) THEN acc
    ELSE LET a == get_level(K, v[4 * k + 1], level)
             b == get_level(K, v[4 * k + 2], level)
             c == get_level(K, v[4 * k + 3], level)
             d == get_level(K, v[4 * k + 4], level)
             acc1 == [acc EXCEPT ![1][a] = @ + 1]
             acc2 == [acc1 EXCEPT ![2][b] = @ + 1]
             acc3 == [acc2 EXCEPT ![3][c] = @ + 1]
         IN  CountChunksExact(K, v, level, k + 1, [acc3 EXCEPT ![4][d] = @ + 1])

\* get_counts without its remainder loop.
CountRemainderNone(K, v, level, i, counts_1) == counts_1

\* rem.iter().for_each(|x| counts_1[x.get_level(level)] += 1)
RECURSIVE CountRemainder(_, _, _, _, _)
CountRemainder(K, v, level, i, counts_1) ==
    IF i > Len(v) THEN counts_1
    ELSE CountRemainder(K, v, level, i + 1,
             [counts_1 EXCEPT ![get_level(K, v[i], level)] = @ + 1])

get_counts(K, v, level) ==
    LET lanes == CountChunksExact(K, v, level, 0, [i \in 1 .. 4 |-> ZeroCounts])
        rem_start == 4 * (Len(v) \div 4) + 1
        counts_1 == CountRemainder(K, v, level, rem_start, lanes[1])
    IN  [i \in Bytes |-> counts_1[i] + lanes[2][i] + lanes[3][i] + lanes[4][i]]

\* msb_counts[i] = *c in place of msb_counts[i] += *c.
AccumulateOverwrite(msb_counts, cs) == cs

\* for (i, c) in counts.iter().enumerate() { msb_counts[i] += *c; }
Accumulate(msb_counts, cs) == [i \in Bytes |-> msb_counts[i] + cs[i]]

cdiv(a, b) == (a + b - 1) \div b

\* A call of par_get_counts on a slice, before its first statement.
NewJob(slice) ==
    [pc |-> "call", bucket |-> slice, chunks |-> <<>>, sent |-> {},
     chan |-> <<>>, received |-> 0, msb_counts |-> ZeroCounts]

RECURSIVE SumTiles(_, _, _)
\* for tile in tile_counts.iter().skip(1) { out[i] += tile[i] }
SumTiles(tiles, t, out) ==
    IF t > Len(tiles) THEN out
    ELSE SumTiles(tiles, t + 1, [i \in Bytes |-> out[i] + tiles[t][i]])

\* "ok" with the sum, or "panic": tile_counts[0] of an empty vector.
aggregate_tile_counts(tiles) ==
    IF tiles = <<>> THEN [st |-> "panic", out |-> ZeroCounts]
    ELSE [st |-> "ok", out |-> SumTiles(tiles, 2, tiles[1])]

CountIdle ==
    /\ cnt_fn = "none"
    /\ cnt_T = "u8"
    /\ cnt_bucket = <<>>
    /\ cnt_level = 0
    /\ tile_size = 1
    /\ cnt_pc = "idle"
    /\ jobs = <<>>
    /\ parts = <<>>
    /\ tile_counts = <<>>
    /\ cnt_out = ZeroCounts

\* The longest slice handed to the counting functions.
MaxCountLen == 9

CountKeyTypes == {"u8", "u16"}

\* Every slice of up to two elements, and the arithmetic progressions through
\* ElemSeq of every longer length.
CountInputs(K) ==
    LET E == ElemSeq(K)
    IN  UNION {SeqsOfLen(Range(E), n) : n \in 0 .. 2}
        \cup {CycleSeq(E, n, a, c) :
                 n \in 3 .. MaxCountLen,
                 a \in 0 .. (Len(E) - 1), c \in 0 .. (Len(E) - 1)}

CountInit ==
    /\ cnt_fn \in {"par_get_counts", "par_get_all_counts", "get_tile_counts"}
    /\ cnt_T \in CountKeyTypes
    /\ cnt_bucket \in CountInputs(cnt_T)
    /\ cnt_level \in IF cnt_fn = "par_get_all_counts" THEN {0}
                     ELSE 0 .. (LEVELS(cnt_T) - 1)
    /\ tile_size \in IF cnt_fn = "get_tile_counts" THEN 1 .. (MaxCountLen + 1)
                     ELSE {1}
    /\ cnt_pc = "start"
    /\ jobs = <<>>
    /\ parts = <<>>
    /\ tile_counts = <<>>
    /\ cnt_out = ZeroCounts

\* A direct call of par_get_counts(bucket, level).
par_get_counts_call ==
    /\ cnt_pc = "start"
    /\ cnt_fn = "par_get_counts"
    /\ jobs' = <<NewJob(cnt_bucket)>>
    /\ cnt_pc' = "running"
    /\ UNCHANGED <<cnt_fn, cnt_T, cnt_bucket, cnt_level, tile_size, parts,
                   tile_counts, cnt_out>>
    /\ UNCHANGED noncountvars

\* get_tile_counts: bucket.par_chunks(tile_size).map(par_get_counts)
get_tile_counts ==
    /\ cnt_pc = "start"
    /\ cnt_fn = "get_tile_counts"
    /\ LET tiles == par_chunks(cnt_bucket, tile_size)
       IN  jobs' = [t \in DOMAIN tiles |-> NewJob(tiles[t])]
    /\ cnt_pc' = "running"
    /\ UNCHANGED <<cnt_fn, cnt_T, cnt_bucket, cnt_level, tile_size, parts,
                   tile_counts, cnt_out>>
    /\ UNCHANGED noncountvars

\* par_get_counts up to the channel: the serial count of a short slice, or
\* the split into chunks.
par_get_counts(j) ==
    /\ cnt_pc = "running"
    /\ j \in DOMAIN jobs
    /\ jobs[j].pc = "call"
    /\ LET v == jobs[j].bucket
           chunk_size == ((Len(v) \div Threads) \div ChunkDivisor) + 1
       IN  jobs' = IF Len(v) < ParGetCountsThreshold
                   THEN [jobs EXCEPT ![j].pc = "done",
                                     ![j].msb_counts = get_counts(cnt_T, v, cnt_level)]
                   ELSE [jobs EXCEPT ![j].pc = "send",
                                     ![j].chunks = par_chunks(v, chunk_size)]
    /\ UNCHANGED <<cnt_fn, cnt_T, cnt_bucket, cnt_level, tile_size, cnt_pc,
                   parts, tile_counts, cnt_out>>
    /\ UNCHANGED noncountvars

\* One chunk of for_each_with: count it and send the histogram.  After the
\* last chunk for_each_with returns and the sender is dropped.
ChunkSend(j, c) ==
    /\ cnt_pc = "running"
    /\ j \in DOMAIN jobs
    /\ jobs[j].pc = "send"
    /\ c \in DOMAIN jobs[j].chunks
    /\ c \notin jobs[j].sent
    /\ jobs' = [jobs EXCEPT
                  ![j].chan = Append(@, get_counts(cnt_T, jobs[j].chunks[c], cnt_level)),
                  ![j].sent = @ \cup {c},
                  ![j].pc = IF jobs[j].sent \cup {c} = DOMAIN jobs[j].chunks
                            THEN "recv" ELSE "send"]
    /\ UNCHANGED <<cnt_fn, cnt_T, cnt_bucket, cnt_level, tile_size, cnt_pc,
                   parts, tile_counts, cnt_out>>
    /\ UNCHANGED noncountvars

\* One turn of `for _ in 0..len`: rx.recv().unwrap() and the accumulation;
\* recv on an empty channel whose sender is gone is an Err, and unwrap panics.
Recv(j) ==
    /\ cnt_pc = "running"
    /\ j \in DOMAIN jobs
    /\ jobs[j].pc = "recv"
    /\ jobs' =
         IF jobs[j].received = Len(jobs[j].chunks)
         THEN [jobs EXCEPT ![j].pc = "done"]
         ELSE IF jobs[j].chan = <<>>
         THEN [jobs EXCEPT ![j].pc = "panicked"]
         ELSE [jobs EXCEPT
                 ![j].msb_counts = Accumulate(@, Head(jobs[j].chan)),
                 ![j].chan = Tail(@),
                 ![j].received = @ + 1]
    /\ UNCHANGED <<cnt_fn, cnt_T, cnt_bucket, cnt_level, tile_size, cnt_pc,
                   parts, tile_counts, cnt_out>>
    /\ UNCHANGED noncountvars

\* The direct call of par_get_counts returns msb_counts.
par_get_counts_return ==
    /\ cnt_pc = "running"
    /\ cnt_fn = "par_get_counts"
    /\ jobs[1].pc = "done"
    /\ cnt_out' = jobs[1].msb_counts
    /\ cnt_pc' = "done"
    /\ UNCHANGED <<cnt_fn, cnt_T, cnt_bucket, cnt_level, tile_size, jobs,
                   parts, tile_counts>>
    /\ UNCHANGED noncountvars

\* get_tile_counts: .collect() once every tile is counted.
collect ==
    /\ cnt_pc = "running"
    /\ cnt_fn = "get_tile_counts"
    /\ \A j \in DOMAIN jobs : jobs[j].pc = "done"
    /\ tile_counts' = [j \in DOMAIN jobs |-> jobs[j].msb_counts]
    /\ cnt_pc' = "collected"
    /\ UNCHANGED <<cnt_fn, cnt_T, cnt_bucket, cnt_level, tile_size, jobs,
                   parts, cnt_out>>
    /\ UNCHANGED noncountvars

\* aggregate_tile_counts on what get_tile_counts returned.
aggregate_tile_counts_call ==
    /\ cnt_pc = "collected"
    /\ LET r == aggregate_tile_counts(tile_counts)
       IN  /\ cnt_pc' = IF r.st = "ok" THEN "done" ELSE "panicked"
           /\ cnt_out' = r.out
    /\ UNCHANGED <<cnt_fn, cnt_T, cnt_bucket, cnt_level, tile_size, jobs,
                   parts, tile_counts>>
    /\ UNCHANGED noncountvars

\* reduce's identity: (vec![0usize; 256], get_count_map::<T>())
ReduceIdentity(K) == [msb |-> ZeroCounts, lsb |-> get_count_map(K)]

\* par_get_all_counts: the split into chunks.
par_get_all_counts_call ==
    /\ cnt_pc = "start"
    /\ cnt_fn = "par_get_all_counts"
    /\ LET chunk_size == (Len(cnt_bucket) \div NumCpus) + 1
           chunks == par_chunks(cnt_bucket, chunk_size)
       IN  parts' = [c \in DOMAIN chunks |-> [mapped |-> FALSE, v |-> chunks[c]]]
    /\ cnt_pc' = "reducing"
    /\ UNCHANGED <<cnt_fn, cnt_T, cnt_bucket, cnt_level, tile_size, jobs,
                   tile_counts, cnt_out>>
    /\ UNCHANGED noncountvars

\* The map closure on one chunk, folded onto the identity.
MapChunk(c) ==
    /\ cnt_pc = "reducing"
    /\ c \in DOMAIN parts
    /\ ~parts[c].mapped
    /\ parts' = [parts EXCEPT
                   ![c] = [mapped |-> TRUE,
                           v |-> ReducePair(ReduceIdentity(cnt_T),
                                            get_all_counts(cnt_T, parts[c].v))]]
    /\ UNCHANGED <<cnt_fn, cnt_T, cnt_bucket, cnt_level, tile_size, cnt_pc,
                   jobs, tile_counts, cnt_out>>
    /\ UNCHANGED noncountvars

\* The reduce closure on two neighbouring results.
Reduce(c) ==
    /\ cnt_pc = "reducing"
    /\ c \in DOMAIN parts
    /\ c + 1 \in DOMAIN parts
    /\ parts[c].mapped
    /\ parts[c + 1].mapped
    /\ parts' = SubSeq(parts, 1, c - 1)
                \o <<[mapped |-> TRUE, v |-> ReducePair(parts[c].v, parts[c + 1].v)]>>
                \o SubSeq(parts, c + 2, Len(parts))
    /\ UNCHANGED <<cnt_fn, cnt_T, cnt_bucket, cnt_level, tile_size, cnt_pc,
                   jobs, tile_counts, cnt_out>>
    /\ UNCHANGED noncountvars

\* reduce returns the one result left, or the identity of an empty slice.
par_get_all_counts_return ==
    /\ cnt_pc = "reducing"
    /\ \/ parts = <<>>
       \/ Len(parts) = 1 /\ parts[1].mapped
    /\ cnt_out' = IF parts = <<>> THEN ReduceIdentity(cnt_T) ELSE parts[1].v
    /\ cnt_pc' = "done"
    /\ UNCHANGED <<cnt_fn, cnt_T, cnt_bucket, cnt_level, tile_size, jobs,
                   parts, tile_counts>>
    /\ UNCHANGED noncountvars

\* Every index a tile, a chunk or a part can have.
Slots == 1 .. MaxCountLen

CountNext ==
    \/ par_get_counts_call
    \/ get_tile_counts
    \/ \E j \in Slots : par_get_counts(j)
    \/ \E j \in Slots, c \in Slots : ChunkSend(j, c)
    \/ \E j \in Slots : Recv(j)
    \/ par_get_counts_return
    \/ collect
    \/ aggregate_tile_counts_call
    \/ par_get_all_counts_call
    \/ \E c \in Slots : MapChunk(c)
    \/ \E c \in Slots : Reduce(c)
    \/ par_get_all_counts_return

\* ------------------------------------------------ sorts/mt_lsb_sort.rs --
MtIdle ==
    /\ mt_T = "u8"
    /\ mt_input = <<>>
    /\ mt_bucket = <<>>
    /\ mt_tmp = <<>>
    /\ start_level = 0
    /\ end_level = 0
    /\ mt_tile = 1
    /\ mt_level = 0
    /\ invert = FALSE
    /\ mt_counts = <<>>
    /\ mt_left = {}
    /\ mt_pc = "idle"

\* get_tile_counts as a value: one histogram per tile, in order.
TileCounts(K, v, tsize, level) ==
    LET tiles == par_chunks(v, tsize)
    IN  [t \in DOMAIN tiles |-> get_counts(K, tiles[t], level)]

\* for b in 0..256 { for c in 0..tiles { minor_counts.push(tile_counts[c][b]) } }
minor_counts(tcs) ==
    LET tiles == Len(tcs)
    IN  [k \in 1 .. (Radix * tiles) |-> tcs[((k - 1) % tiles) + 1][(k - 1) \div tiles]]

RECURSIVE SumSeq(_, _)
SumSeq(s, n) == IF n = 0 THEN 0 ELSE SumSeq(s, n - 1) + s[n]

\* collated_chunks[t][b]: the chunk of dst_bucket that arbitrary_chunks_mut
\* cut for byte b of tile t (t from 1), as its offset in dst and its length.
CollatedChunk(tcs, t, b) ==
    LET mc == minor_counts(tcs)
        k == b * Len(tcs) + t
    IN  [start |-> SumSeq(mc, k - 1), len |-> mc[k]]

saturating_sub(a, b) == IF a >= b THEN a - b ELSE 0

\* buckets[b][ends[b]] = x; without the step of ends[b].
PutRightStuck(K, level, buckets, st, x) ==
    LET b == get_level(K, x, level)
    IN  IF ~st.ok \/ st.ends[b] >= buckets[b].len THEN [st EXCEPT !.ok = FALSE]
        ELSE [st EXCEPT !.dst[buckets[b].start + st.ends[b] + 1] = x,
                        !.writes = Append(@, buckets[b].start + st.ends[b] + 1)]

\* buckets[b][ends[b]] = x; ends[b] = ends[b].saturating_sub(1);
PutRight(K, level, buckets, st, x) ==
    LET b == get_level(K, x, level)
    IN  IF ~st.ok \/ st.ends[b] >= buckets[b].len THEN [st EXCEPT !.ok = FALSE]
        ELSE [st EXCEPT !.dst[buckets[b].start + st.ends[b] + 1] = x,
                        !.writes = Append(@, buckets[b].start + st.ends[b] + 1),
                        !.ends[b] = saturating_sub(@, 1)]

\* buckets[b][offsets[b]] = x; offsets[b] += 1;
PutLeft(K, level, buckets, st, x) ==
    LET b == get_level(K, x, level)
    IN  IF ~st.ok \/ st.offsets[b] >= buckets[b].len THEN [st EXCEPT !.ok = FALSE]
        ELSE [st EXCEPT !.dst[buckets[b].start + st.offsets[b] + 1] = x,
                        !.writes = Append(@, buckets[b].start + st.offsets[b] + 1),
                        !.offsets[b] = @ + 1]

\* The tail taken from its first element to its last.
RECURSIVE PreLoopForward(_, _, _, _, _, _)
PreLoopForward(K, level, buckets, tile, st, n) ==
    IF n = 0 THEN st
    ELSE LET s1 == PutRight(K, level, buckets, st, tile[Len(tile) - n + 1])
         IN  PreLoopForward(K, level, buckets, tile,
                            [s1 EXCEPT !.right = saturating_sub(@, 1)], n - 1)

\* for _ in 0..pre { ...; right = right.saturating_sub(1); }
RECURSIVE PreLoop(_, _, _, _, _, _)
PreLoop(K, level, buckets, tile, st, n) ==
    IF n = 0 THEN st
    ELSE LET s1 == PutRight(K, level, buckets, st, tile[st.right + 1])
         IN  PreLoop(K, level, buckets, tile,
                     [s1 EXCEPT !.right = saturating_sub(@, 1)], n - 1)

\* loop { if left >= right { break; } four from the left, four from the right }
RECURSIVE MainLoop(_, _, _, _, _)
MainLoop(K, level, buckets, tile, st) ==
    IF st.left >= st.right \/ ~st.ok THEN st
    ELSE LET l == st.left
             r == st.right
             s1 == PutLeft(K, level, buckets, st, tile[l + 1])
             s2 == PutRight(K, level, buckets, s1, tile[r + 1])
             s3 == PutLeft(K, level, buckets, s2, tile[l + 2])
             s4 == PutRight(K, level, buckets, s3, tile[r])
             s5 == PutLeft(K, level, buckets, s4, tile[l + 3])
             s6 == PutRight(K, level, buckets, s5, tile[r - 1])
             s7 == PutLeft(K, level, buckets, s6, tile[l + 4])
             s8 == PutRight(K, level, buckets, s7, tile[r - 2])
         IN  MainLoop(K, level, buckets, tile,
                      [s8 EXCEPT !.left = l + 4, !.right = saturating_sub(r, 4)])

\* The for_each closure of mt_lsb_sort on tile t: [ok, dst, writes], writes
\* the slots of dst it assigned (from 1), in order.
mt_lsb_sort_tile(K, src, dst, tcs, tsize, level, t) ==
    LET tile == par_chunks(src, tsize)[t]
        buckets == [b \in Bytes |-> CollatedChunk(tcs, t, b)]
        st0 == [ok |-> TRUE, dst |-> dst, writes |-> <<>>,
                offsets |-> [b \in Bytes |-> 0],
                ends |-> [b \in Bytes |->
                            IF buckets[b].len = 0 THEN 0 ELSE buckets[b].len - 1],
                left |-> 0, right |-> Len(tile) - 1]
        pre == Len(tile) % 8
        st1 == PreLoop(K, level, buckets, tile, st0, pre)
        st2 == IF pre = Len(tile) THEN st1
               ELSE MainLoop(K, level, buckets, tile, st1)
    IN  IF Len(tile) = 0 THEN [ok |-> TRUE, dst |-> dst, writes |-> <<>>]
        ELSE [ok |-> st2.ok, dst |-> st2.dst, writes |-> st2.writes]

\* The longest slice handed to mt_lsb_sort_adapter: two turns of the
\* eight-element loop and one element before it.
MaxMtLen == 17

MtKeyTypes == {"u8", "u16", "u32"}

MtInputs(K) ==
    LET E == ElemSeq(K)
    IN  UNION {SeqsOfLen(Range(E), n) : n \in 0 .. 2}
        \cup {CycleSeq(E, n, a, c) :
                 n \in 3 .. MaxMtLen, a \in 0 .. (Len(E) - 1), c \in 0 .. 1}

MtInit ==
    /\ mt_T \in MtKeyTypes
    /\ mt_input \in MtInputs(mt_T)
    /\ mt_bucket = mt_input
    /\ mt_tmp = <<>>
    /\ start_level \in 0 .. (LEVELS(mt_T) - 1)
    /\ end_level \in 0 .. (LEVELS(mt_T) - 1)
    /\ mt_tile \in {cdiv(Len(mt_input), n) : n \in 1 .. Threads} \ {0}
    /\ mt_level = 0
    /\ invert = FALSE
    /\ mt_counts = <<>>
    /\ mt_left = {}
    /\ mt_pc = "call"

\* mt_lsb_sort_adapter up to its loop over the levels.
mt_lsb_sort_adapter ==
    /\ mt_pc = "call"
    /\ IF Len(mt_bucket) < 2
       THEN /\ mt_pc' = "done"
            /\ UNCHANGED <<mt_tmp, mt_level>>
       ELSE /\ mt_tmp' = get_tmp_bucket(Len(mt_bucket))
            /\ mt_level' = start_level
            /\ mt_pc' = "levels"
    /\ UNCHANGED <<mt_T, mt_input, mt_bucket, start_level, end_level, mt_tile,
                   invert, mt_counts, mt_left>>
    /\ UNCHANGED nonmtvars

\* The head of `for level in levels`: get_tile_counts of the source of this
\* pass and the chunks of mt_lsb_sort, or the end of the loop.
NextLevel ==
    /\ mt_pc = "levels"
    /\ IF mt_level > end_level
       THEN /\ mt_pc' = IF invert THEN "copy" ELSE "done"
            /\ UNCHANGED <<mt_counts, mt_left>>
       ELSE LET src == IF invert THEN mt_tmp ELSE mt_bucket
            IN  /\ mt_counts' = TileCounts(mt_T, src, mt_tile, mt_level)
                /\ mt_left' = DOMAIN par_chunks(src, mt_tile)
                /\ mt_pc' = "scatter"
    /\ UNCHANGED <<mt_T, mt_input, mt_bucket, mt_tmp, start_level, end_level,
                   mt_tile, mt_level, invert>>
    /\ UNCHANGED nonmtvars

\* One tile of mt_lsb_sort's for_each; after the last one, invert = !invert.
TileScatter(t) ==
    /\ mt_pc = "scatter"
    /\ t \in mt_left
    /\ LET src == IF invert THEN mt_tmp ELSE mt_bucket
           dst == IF invert THEN mt_bucket ELSE mt_tmp
           r == mt_lsb_sort_tile(mt_T, src, dst, mt_counts, mt_tile, mt_level, t)
           last == mt_left = {t}
       IN  /\ IF invert THEN mt_bucket' = r.dst /\ UNCHANGED mt_tmp
                        ELSE mt_tmp' = r.dst /\ UNCHANGED mt_bucket
           /\ mt_left' = mt_left \ {t}
           /\ mt_pc' = IF ~r.ok THEN "panicked"
                       ELSE IF last THEN "levels" ELSE "scatter"
           /\ invert' = IF r.ok /\ last THEN ~invert ELSE invert
           /\ mt_level' = IF r.ok /\ last THEN mt_level + 1 ELSE mt_level
    /\ UNCHANGED <<mt_T, mt_input, start_level, end_level, mt_tile, mt_counts>>
    /\ UNCHANGED nonmtvars

\* The end of the adapter without the copy.
CopyBackSkipped ==
    /\ mt_pc = "copy"
    /\ mt_pc' = "done"
    /\ UNCHANGED <<mt_T, mt_input, mt_bucket, mt_tmp, start_level, end_level, mt_tile,
                   mt_level, invert, mt_counts, mt_left>>
    /\ UNCHANGED nonmtvars

\* if invert { bucket <- tmp_bucket, tile by tile }
CopyBack ==
    /\ mt_pc = "copy"
    /\ mt_bucket' = mt_tmp
    /\ mt_pc' = "done"
    /\ UNCHANGED <<mt_T, mt_input, mt_tmp, start_level, end_level, mt_tile,
                   mt_level, invert, mt_counts, mt_left>>
    /\ UNCHANGED nonmtvars

\* Every index a tile can have.
MtTiles == 1 .. Threads

MtNext ==
    \/ mt_lsb_sort_adapter
    \/ NextLevel
    \/ \E t \in MtTiles : TileScatter(t)
    \/ CopyBack

\* ------------------------------------- the scanning sort, fair workers --
ScanKeyTypes == {"u16"}

\* A slice long enough for the scanning path.
ScanInit ==
    /\ T \in ScanKeyTypes
    /\ checks = TRUE
    /\ input \in {s \in Inputs(T) : Len(s) > ScanThreshold}
    /\ bucket = input
    /\ pc = "entry"
    /\ call = 1
    /\ first_out = <<>>
    /\ counts = NoCounts
    /\ fresh_tmp = FALSE
    /\ sb = get_scanner_buckets(ZeroCounts)
    /\ lock = IdleLocks
    /\ wk = IdleWorkers
    /\ tasks = {}

\* The call up to the return of tp.scope.
ScanNext ==
    \/ radix_sort_inner
    \/ radix_sort_bucket_start
    \/ scanning_radix_sort_bucket
    \/ \E w \in Workers : WorkerLock(w)
    \/ \E w \in Workers : WorkerVisit(w)
    \/ ScopeJoin

\* A worker that runs: when it waits for a mutex that is free again and
\* again it gets it, and when it holds a guard it finishes its iteration.
Scheduled(w) == SF_vars(WorkerLock(w)) /\ WF_vars(WorkerVisit(w))

\* The calling thread keeps running, and the pool runs at least the first
\* worker it spawned.
ScanFairness ==
    /\ WF_vars(radix_sort_inner \/ radix_sort_bucket_start
               \/ scanning_radix_sort_bucket \/ ScopeJoin)
    /\ Scheduled(1)

\* --------------------------- the scanning sort, a get_level that panics --
ScanPanicNext ==
    \/ radix_sort_inner
    \/ radix_sort_bucket_start
    \/ scanning_radix_sort_bucket
    \/ \E w \in Workers : WorkerLock(w)
    \/ \E w \in Workers : WorkerVisit(w)
    \/ \E w \in Workers : WorkerPanic(w)
    \/ ScopeJoin

\* The calling thread and every worker keep running.
ScanPanicFairness ==
    /\ WF_vars(radix_sort_inner \/ radix_sort_bucket_start
               \/ scanning_radix_sort_bucket \/ ScopeJoin)
    /\ \A w \in Workers : Scheduled(w)

\* ------------------------------------- sorts/out_of_place_sort.rs -------
OpIdle ==
    /\ op_fn = "none"
    /\ op_T = "u8"
    /\ op_src = <<>>
    /\ op_level = 0
    /\ op_counts = ZeroCounts
    /\ op_dst = <<>>
    /\ op_writes = <<>>
    /\ op_next = ZeroCounts
    /\ op_sums = ZeroCounts
    /\ op_ends = ZeroCounts
    /\ op_plateaus = <<>>
    /\ op_pc = "idle"

RECURSIVE RunningSums(_, _, _, _)
\* for (i, c) in counts.iter().enumerate() { sums[i] = running_total;
\*                                           running_total += c; }
RunningSums(cs, i, running_total, sums) ==
    IF i = Radix THEN sums
    ELSE RunningSums(cs, i + 1, running_total + cs[i],
                     [sums EXCEPT ![i] = running_total])

\* get_prefix_sums of utils/sort_utils.rs.
sort_utils_get_prefix_sums(cs) == RunningSums(cs, 0, 0, ZeroCounts)

\* get_end_offsets with end_offsets[255] = prefix_sums[255].
get_end_offsets_short(cs, prefix_sums) ==
    [i \in Bytes |-> IF i < Radix - 1 THEN prefix_sums[i + 1]
                     ELSE prefix_sums[Radix - 1]]

\* end_offsets[0..255] = prefix_sums[1..256];
\* end_offsets[255] = counts[255] + prefix_sums[255];
get_end_offsets(cs, prefix_sums) ==
    [i \in Bytes |-> IF i < Radix - 1 THEN prefix_sums[i + 1]
                     ELSE cs[Radix - 1] + prefix_sums[Radix - 1]]

\* dst_bucket[prefix_sums[b]] = x without prefix_sums[b] += 1.
OopPutNoAdvance(K, level, st, x, k) ==
    LET b == get_level(K, x, level)
        at == st.sums[b]
    IN  IF ~st.ok \/ at >= Len(st.dst) THEN [st EXCEPT !.ok = FALSE]
        ELSE [st EXCEPT !.dst[at + 1] = x,
                        !.writes = Append(@, [at |-> at + 1, k |-> k])]

\* dst_bucket[prefix_sums[b]] = x; prefix_sums[b] += 1; for the element x
\* at index k (from 1) of the source. The index is checked.
OopPut(K, level, st, x, k) ==
    LET b == get_level(K, x, level)
        at == st.sums[b]
    IN  IF ~st.ok \/ at >= Len(st.dst) THEN [st EXCEPT !.ok = FALSE]
        ELSE [st EXCEPT !.dst[at + 1] = x,
                        !.writes = Append(@, [at |-> at + 1, k |-> k]),
                        !.sums[b] = @ + 1]

RECURSIVE OopPuts(_, _, _, _, _, _)
\* The elements k .. last of the source, in order.
OopPuts(K, v, level, k, last, st) ==
    IF k > last THEN st
    ELSE OopPuts(K, v, level, k + 1, last, OopPut(K, level, st, v[k], k))

\* out_of_place_sort: the chunks_exact(8) loop, then the remainder.
out_of_place_sort(K, v, dst, cs, level) ==
    LET st0 == [ok |-> TRUE, dst |-> dst, writes |-> <<>>,
                sums |-> sort_utils_get_prefix_sums(cs)]
        full == 8 * (Len(v) \div 8)
        st1 == OopPuts(K, v, level, 1, full, st0)
    IN  OopPuts(K, v, level, full + 1, Len(v), st1)

RECURSIVE OopPutsCounting(_, _, _, _, _, _, _)
\* The same with next_counts: in the chunks the elements 0, 2, 4, 6 of a
\* chunk count into next_counts_0 and the others into next_counts_1; the
\* remainder counts into next_counts_0.
OopPutsCounting(K, v, level, k, last, in_chunks, st) ==
    IF k > last THEN st
    ELSE LET bn == get_level(K, v[k], level + 1)
             s1 == OopPut(K, level, st, v[k], k)
             s2 == IF ~s1.ok THEN s1
                   ELSE IF in_chunks /\ ((k - 1) % 8) % 2 = 1
                   THEN [s1 EXCEPT !.next_counts_1[bn] = @ + 1]
                   ELSE [s1 EXCEPT !.next_counts_0[bn] = @ + 1]
         IN  OopPutsCounting(K, v, level, k + 1, last, in_chunks, s2)

\* The merge that returns next_counts_0 as it is.
MergeNextFirst(next_counts_0, next_counts_1) == next_counts_0

\* for i in 0..256 { next_counts_0[i] += next_counts_1[i]; }
MergeNext(next_counts_0, next_counts_1) ==
    [i \in Bytes |-> next_counts_0[i] + next_counts_1[i]]

out_of_place_sort_with_counts(K, v, dst, cs, level) ==
    LET st0 == [ok |-> TRUE, dst |-> dst, writes |-> <<>>,
                sums |-> sort_utils_get_prefix_sums(cs),
                next_counts_0 |-> ZeroCounts, next_counts_1 |-> ZeroCounts]
        full == 8 * (Len(v) \div 8)
        st1 == OopPutsCounting(K, v, level, 1, full, TRUE, st0)
        st2 == OopPutsCounting(K, v, level, full + 1, Len(v), FALSE, st1)
    IN  [ok |-> st2.ok, dst |-> st2.dst, writes |-> st2.writes,
         next |-> MergeNext(st2.next_counts_0, st2.next_counts_1)]

\* The largest entry of a histogram handed to get_prefix_sums directly.
MaxCount == 3

OpKeyTypes == {"u8", "u16", "u32"}
ScatterFns == {"out_of_place_sort", "out_of_place_sort_with_counts",
               "radix_sort_bucket"}

\* A call of one of the scatters on a slice and one of its levels (a level
\* with a next level for out_of_place_sort_with_counts), or of
\* get_prefix_sums and get_end_offsets on a histogram.
OpScatterInit ==
    /\ op_fn \in ScatterFns \cup {"get_prefix_sums"}
    /\ op_T \in IF op_fn = "get_prefix_sums" THEN {"u8"}
                ELSE IF op_fn = "out_of_place_sort_with_counts"
                THEN OpKeyTypes \ {"u8"}
                ELSE OpKeyTypes
    /\ op_src \in IF op_fn = "get_prefix_sums" THEN {<<>>} ELSE MtInputs(op_T)
    /\ op_level \in IF op_fn = "get_prefix_sums" THEN {0}
                    ELSE IF op_fn = "out_of_place_sort_with_counts"
                    THEN 0 .. (LEVELS(op_T) - 2)
                    ELSE 0 .. (LEVELS(op_T) - 1)
    /\ op_counts \in IF op_fn = "get_prefix_sums" THEN [Bytes -> 0 .. MaxCount]
                     ELSE {ZeroCounts}
    /\ op_dst = <<>>
    /\ op_writes = <<>>
    /\ op_next = ZeroCounts
    /\ op_sums = ZeroCounts
    /\ op_ends = ZeroCounts
    /\ op_plateaus = <<>>
    /\ op_pc = "call"

\* The caller's get_counts of the source at the level.
get_counts_call ==
    /\ op_pc = "call"
    /\ op_fn \in ScatterFns
    /\ op_counts' = get_counts(op_T, op_src, op_level)
    /\ op_pc' = "counted"
    /\ UNCHANGED <<op_fn, op_T, op_src, op_level, op_dst, op_writes, op_next,
                   op_sums, op_ends, op_plateaus>>
    /\ UNCHANGED nonopvars

out_of_place_sort_call ==
    /\ op_pc = "counted"
    /\ op_fn = "out_of_place_sort"
    /\ LET r == out_of_place_sort(op_T, op_src, get_tmp_bucket(Len(op_src)),
                                  op_counts, op_level)
       IN  /\ op_dst' = r.dst
           /\ op_writes' = r.writes
           /\ op_pc' = IF r.ok THEN "done" ELSE "panicked"
    /\ UNCHANGED <<op_fn, op_T, op_src, op_level, op_counts, op_next,
                   op_sums, op_ends, op_plateaus>>
    /\ UNCHANGED nonopvars

out_of_place_sort_with_counts_call ==
    /\ op_pc = "counted"
    /\ op_fn = "out_of_place_sort_with_counts"
    /\ LET r == out_of_place_sort_with_counts(op_T, op_src,
                    get_tmp_bucket(Len(op_src)), op_counts, op_level)
       IN  /\ op_dst' = r.dst
           /\ op_writes' = r.writes
           /\ op_next' = r.next
           /\ op_pc' = IF r.ok THEN "done" ELSE "panicked"
    /\ UNCHANGED <<op_fn, op_T, op_src, op_level, op_counts,
                   op_sums, op_ends, op_plateaus>>
    /\ UNCHANGED nonopvars

\* The scatter of radix_sort_bucket and lsb_radix_sort_bucket (lib.rs) into
\* a fresh tmp_bucket.
scatter_call ==
    /\ op_pc = "counted"
    /\ op_fn = "radix_sort_bucket"
    /\ LET sc == Scatter(op_T, op_src, 1, op_level, get_prefix_sums(op_counts),
                         get_tmp_bucket(Len(op_src)))
       IN  /\ op_dst' = sc.tmp
           /\ op_pc' = IF sc.ok THEN "done" ELSE "panicked"
    /\ UNCHANGED <<op_fn, op_T, op_src, op_level, op_counts, op_writes, op_next,
                   op_sums, op_ends, op_plateaus>>
    /\ UNCHANGED nonopvars

get_prefix_sums_call ==
    /\ op_pc = "call"
    /\ op_fn = "get_prefix_sums"
    /\ op_sums' = sort_utils_get_prefix_sums(op_counts)
    /\ op_pc' = "summed"
    /\ UNCHANGED <<op_fn, op_T, op_src, op_level, op_counts, op_dst, op_writes,
                   op_next, op_ends, op_plateaus>>
    /\ UNCHANGED nonopvars

get_end_offsets_call ==
    /\ op_pc = "summed"
    /\ op_fn = "get_prefix_sums"
    /\ op_ends' = get_end_offsets(op_counts, op_sums)
    /\ op_pc' = "done"
    /\ UNCHANGED <<op_fn, op_T, op_src, op_level, op_counts, op_dst, op_writes,
                   op_next, op_sums, op_plateaus>>
    /\ UNCHANGED nonopvars

OpScatterNext ==
    \/ get_counts_call
    \/ out_of_place_sort_call
    \/ out_of_place_sort_with_counts_call
    \/ scatter_call
    \/ get_prefix_sums_call
    \/ get_end_offsets_call

\* ----------------------------- plateaus (utils/sort_utils.rs) -----------
\* `bucket.len() >> 4` divides by 16; scaled.
PlateauDivisor == 4
\* `if plateau_min_size < 128`, scaled.
PlateauMinSize == 2

\* Option::None of an index.
None == 0 - 1

RECURSIVE FindCandidates(_, _, _, _, _, _)
\* 1. for (i, v) in bucket.iter().enumerate().step_by(plateau_min_size):
\* st is [current, start, end, candidates], a candidate
\* <<radix, sl, sr, el, er>>.
FindCandidates(K, v, level, step, i, st) ==
    IF i >= Len(v) THEN st.candidates
    ELSE LET b == get_level(K, v[i + 1], level)
         IN  IF b = st.current
             THEN FindCandidates(K, v, level, step, i + step, [st EXCEPT !.end = i])
             ELSE FindCandidates(K, v, level, step, i + step,
                      [current |-> b, start |-> i, end |-> i,
                       candidates |->
                           IF st.start # None /\ st.end # None /\ st.start # st.end
                           THEN Append(st.candidates,
                                       <<st.current, st.start, st.start, st.end, st.end>>)
                           ELSE st.candidates])

\* An exploration that leaves *x where the sample was.
ExploreLeftNone(K, v, level, radix, i, stop, was) == was

RECURSIVE ExploreLeft(_, _, _, _, _, _, _)
\* loop { if i == stop { break; } i -= 1; if byte != radix { *x = i + 1; break; } }
\* The value of *x afterwards; was is its value before.
ExploreLeft(K, v, level, radix, i, stop, was) ==
    IF i = stop THEN was
    ELSE IF get_level(K, v[i], level) # radix THEN i
    ELSE ExploreLeft(K, v, level, radix, i - 1, stop, was)

RECURSIVE ExploreRight(_, _, _, _, _, _)
\* loop { if i == bucket.len() - 1 { break; } i += 1; if byte != radix { *x = i; break; } }
ExploreRight(K, v, level, radix, i, was) ==
    IF i = Len(v) - 1 THEN was
    ELSE IF get_level(K, v[i + 2], level) # radix THEN i + 1
    ELSE ExploreRight(K, v, level, radix, i + 1, was)

\* 2. One candidate: the plateaus it adds, in order. A subtraction below
\* zero panics or wraps; ok tells that none did.
ExploreCandidate(K, v, level, step, c) ==
    LET radix == c[1]
        sl == ExploreLeft(K, v, level, radix, c[2], 0, c[2])
        sr == ExploreRight(K, v, level, radix, c[3], c[3])
        er0 == c[5]
        el0 == c[4]
        around_start == IF sr - sl >= step THEN <<(<<radix, sl, sr>>)>> ELSE <<>>
        el == ExploreLeft(K, v, level, radix, el0, sr, el0)
        er == ExploreRight(K, v, level, radix, er0, er0)
    IN  IF sr > er0 THEN [ok |-> TRUE, plateaus |-> <<(<<radix, sl, sr>>)>>]
        ELSE IF sr < sl \/ el0 < sr THEN [ok |-> FALSE, plateaus |-> <<>>]
        ELSE IF el0 - sr < step THEN [ok |-> TRUE, plateaus |-> around_start]
        ELSE IF er < el THEN [ok |-> FALSE, plateaus |-> around_start]
        ELSE [ok |-> TRUE,
              plateaus |-> IF er - el >= step
                           THEN Append(around_start, <<radix, el, er>>)
                           ELSE around_start]

RECURSIVE ExploreAll(_, _, _, _, _, _, _)
ExploreAll(K, v, level, step, cands, n, acc) ==
    IF n > Len(cands) \/ ~acc.ok THEN acc
    ELSE LET r == ExploreCandidate(K, v, level, step, cands[n])
         IN  ExploreAll(K, v, level, step, cands, n + 1,
                        [ok |-> r.ok, plateaus |-> acc.plateaus \o r.plateaus])

\* detect_plateaus: [ok, plateaus], a plateau <<radix, start, end>> with
\* indices from 0, end exclusive.
detect_plateaus(K, v, level) ==
    LET plateau_min_size == Len(v) \div PlateauDivisor
    IN  IF plateau_min_size < PlateauMinSize THEN [ok |-> TRUE, plateaus |-> <<>>]
        ELSE ExploreAll(K, v, level, plateau_min_size,
                 FindCandidates(K, v, level, plateau_min_size, 0,
                     [current |-> 0, start |-> None, end |-> None,
                      candidates |-> <<>>]),
                 1, [ok |-> TRUE, plateaus |-> <<>>])

\* tmp_a.copy_from_slice(&bucket[a0..a1]); tmp_b.copy_from_slice(&bucket[b0..b1]);
\* bucket[b0..b1].copy_from_slice(&tmp_a); bucket[a0..a1].copy_from_slice(&tmp_b);
\* A range outside the slice or two lengths that differ panic.
SwapRanges(v, a0, a1, b0, b1) ==
    IF a0 > a1 \/ a1 > Len(v) \/ b0 > b1 \/ b1 > Len(v) \/ a1 - a0 # b1 - b0
    THEN [ok |-> FALSE, bucket |-> v]
    ELSE LET tmp_a == Slice(v, a0, a1)
             tmp_b == Slice(v, b0, b1)
         IN  [ok |-> TRUE, bucket |-> WriteAt(WriteAt(v, b0, tmp_a), a0, tmp_b)]

\* The body of the loop of apply_plateaus that takes every plateau for
\* one that is in place.
ApplyPlateauSkip(st, pl) ==
    IF ~st.ok THEN st
    ELSE [st EXCEPT !.prefix_sums[pl[1]] = @ + (pl[3] - pl[2])]

\* The body of the loop of apply_plateaus for the plateau pl.
ApplyPlateau(st, pl) ==
    LET radix == pl[1]
        l == pl[2]
        r == pl[3]
        len == r - l
        write_start == st.prefix_sums[radix]
        write_end == write_start + len
        sums1 == [st.prefix_sums EXCEPT ![radix] = @ + len]
        sw == IF r = write_start /\ l = write_end
              THEN [ok |-> TRUE, bucket |-> st.bucket]
              ELSE IF r < write_start \/ l > write_end
              THEN SwapRanges(st.bucket, l, r, write_start, write_end)
              ELSE IF r < write_end
              THEN SwapRanges(st.bucket, r, write_end, l, write_start)
              ELSE SwapRanges(st.bucket, write_start, l, write_end, r)
    IN  IF ~st.ok THEN st
        ELSE IF len < 0 THEN [st EXCEPT !.ok = FALSE]
        ELSE [ok |-> sw.ok, bucket |-> sw.bucket, prefix_sums |-> sums1]

RECURSIVE ApplyFrom(_, _, _)
ApplyFrom(st, plateaus, n) ==
    IF n > Len(plateaus) THEN st
    ELSE ApplyFrom(ApplyPlateau(st, plateaus[n]), plateaus, n + 1)

\* apply_plateaus: [ok, bucket, prefix_sums, end_offsets].
apply_plateaus(v, cs, plateaus) ==
    LET prefix_sums == sort_utils_get_prefix_sums(cs)
        end_offsets == get_end_offsets(cs, prefix_sums)
        st == ApplyFrom([ok |-> TRUE, bucket |-> v, prefix_sums |-> prefix_sums],
                        plateaus, 1)
    IN  [ok |-> st.ok, bucket |-> st.bucket, prefix_sums |-> st.prefix_sums,
         end_offsets |-> end_offsets]

\* The longest slice handed to detect_plateaus, and the longest handed to
\* apply_plateaus with a plateau of the caller's choice.
MaxPlateauLen == 10
MaxRunLen == 6

\* u8 slices, too short for a plateau or long enough for several.
PlateauInputs ==
    UNION {[1 .. n -> Bytes] :
              n \in 0 .. MaxPlateauLen}

\* Every run of one byte in v, as a plateau.
Runs(v) ==
    {<<v[l + 1], l, r>> : l \in 0 .. (Len(v) - 1), r \in 1 .. Len(v)}
        \cap {pl \in Bytes \X (0 .. Len(v)) \X (0 .. Len(v)) :
                 /\ pl[2] < pl[3]
                 /\ \A k \in (pl[2] + 1) .. pl[3] : v[k] = pl[1]}

\* A call of detect_plateaus, whose result goes to apply_plateaus, or a
\* call of apply_plateaus with one run of the slice as its only plateau.
OpPlateauInit ==
    /\ op_fn \in {"detect_plateaus", "apply_plateaus"}
    /\ op_T = "u8"
    /\ op_src \in IF op_fn = "detect_plateaus" THEN PlateauInputs
                  ELSE UNION {[1 .. n -> Bytes] : n \in 1 .. MaxRunLen}
    /\ op_level = 0
    /\ op_counts = get_counts(op_T, op_src, op_level)
    /\ op_dst = op_src
    /\ op_writes = <<>>
    /\ op_next = ZeroCounts
    /\ op_sums = ZeroCounts
    /\ op_ends = ZeroCounts
    /\ op_plateaus \in IF op_fn = "detect_plateaus" THEN {<<>>}
                       ELSE {<<pl>> : pl \in Runs(op_src)}
    /\ op_pc = IF op_fn = "detect_plateaus" THEN "call" ELSE "detected"

detect_plateaus_call ==
    /\ op_pc = "call"
    /\ op_fn = "detect_plateaus"
    /\ LET r == detect_plateaus(op_T, op_src, op_level)
       IN  /\ op_plateaus' = r.plateaus
           /\ op_pc' = IF r.ok THEN "detected" ELSE "panicked"
    /\ UNCHANGED <<op_fn, op_T, op_src, op_level, op_counts, op_dst, op_writes,
                   op_next, op_sums, op_ends>>
    /\ UNCHANGED nonopvars

apply_plateaus_call ==
    /\ op_pc = "detected"
    /\ op_fn \in {"detect_plateaus", "apply_plateaus"}
    /\ LET r == apply_plateaus(op_src, op_counts, op_plateaus)
       IN  /\ op_dst' = r.bucket
           /\ op_sums' = r.prefix_sums
           /\ op_ends' = r.end_offsets
           /\ op_pc' = IF r.ok THEN "done" ELSE "panicked"
    /\ UNCHANGED <<op_fn, op_T, op_src, op_level, op_counts, op_writes,
                   op_next, op_plateaus>>
    /\ UNCHANGED nonopvars

OpPlateauNext ==
    \/ detect_plateaus_call
    \/ apply_plateaus_call

\* ------------------------------------------------- specifications -----

SortIdle ==
    /\ T = "u8"
    /\ checks = FALSE
    /\ input = <<>>
    /\ bucket = <<>>
    /\ pc = "idle"
    /\ call = 1
    /\ first_out = <<>>
    /\ counts = NoCounts
    /\ fresh_tmp = FALSE
    /\ sb = get_scanner_buckets(ZeroCounts)
    /\ lock = IdleLocks
    /\ wk = IdleWorkers
    /\ tasks = {}

\* radix_sort_unstable on a slice, and once more on what it returned.
InitSort == SortInit /\ TunerIdle /\ KeyIdle /\ CountIdle /\ MtIdle /\ OpIdle
Spec == InitSort /\ [][SortNext]_vars

\* The scanning path of radix_sort_unstable with fairly scheduled workers.
InitScan == ScanInit /\ TunerIdle /\ KeyIdle /\ CountIdle /\ MtIdle /\ OpIdle
SpecScanFair == InitScan /\ [][ScanNext]_vars /\ ScanFairness

InitScanPanic == ScanInit /\ TunerIdle /\ KeyIdle /\ CountIdle /\ MtIdle /\ OpIdle
SpecScanPanic == InitScanPanic /\ [][ScanPanicNext]_vars /\ ScanPanicFairness

\* The tuner on one (params, counts).
InitTuner == TunerInit /\ SortIdle /\ KeyIdle /\ CountIdle /\ MtIdle /\ OpIdle
SpecTuner == InitTuner /\ [][TunerNext]_vars

\* The counting functions of sort_utils.rs and lib.rs on one slice.
InitCount == CountInit /\ SortIdle /\ TunerIdle /\ KeyIdle /\ MtIdle /\ OpIdle
SpecCount == InitCount /\ [][CountNext]_vars

\* mt_lsb_sort_adapter on one slice.
InitMt == MtInit /\ SortIdle /\ TunerIdle /\ KeyIdle /\ CountIdle /\ OpIdle
SpecMtLsb == InitMt /\ [][MtNext]_vars

\* get_level of an integer key on one (self, level).
InitKey == KeyInit /\ SortIdle /\ TunerIdle /\ CountIdle /\ MtIdle /\ OpIdle
SpecKey == InitKey /\ [][KeyNext]_vars

InitScatter == OpScatterInit /\ SortIdle /\ TunerIdle /\ KeyIdle /\ CountIdle /\ MtIdle
SpecScatter == InitScatter /\ [][OpScatterNext]_vars

InitPlateau == OpPlateauInit /\ SortIdle /\ TunerIdle /\ KeyIdle /\ CountIdle /\ MtIdle
SpecPlateau == InitPlateau /\ [][OpPlateauNext]_vars

\* ------------------------------------------------ properties of the sort ----
\* (get_level(x, 0), ..., get_level(x, LEVELS-1)) of a is lexicographically
\* at most that of b.
RECURSIVE LexLeFrom(_, _, _, _)
LexLeFrom(K, a, b, l) ==
    IF l >= LEVELS(K) THEN TRUE
    ELSE IF get_level(K, a, l) < get_level(K, b, l) THEN TRUE
    ELSE IF get_level(K, a, l) > get_level(K, b, l) THEN FALSE
    ELSE LexLeFrom(K, a, b, l + 1)

OrderedByLevels(K, s) ==
    \A i \in DOMAIN s : \A j \in DOMAIN s : i < j => LexLeFrom(K, s[i], s[j], 0)

Occurrences(s, x) == Cardinality({i \in DOMAIN s : s[i] = x})

SameMultiset(a, b) ==
    /\ Len(a) = Len(b)
    /\ \A x \in Range(a) \cup Range(b) : Occurrences(a, x) = Occurrences(b, x)

Ended == pc \in {"returned", "panicked", "ub"}

\* C1 (Order): every call on a slice of a key type with at least one level
\* ends by returning, and the returned slice is ordered by the level tuples
\* of its elements.
C1_Order ==
    (Ended /\ LEVELS(T) >= 1) => (pc = "returned" /\ OrderedByLevels(T, bucket))

\* C2 (Permutation): when the call has returned, the slice holds the
\* multiset of elements it held before the first call; no slot holds
\* scratch contents.
C2_Permutation ==
    pc = "returned" => (SameMultiset(bucket, input) /\ Uninit \notin Range(bucket))

\* A call that took the scanning path, moved elements and returned.
C2_Witness ==
    /\ pc = "returned"
    /\ call = 1
    /\ fresh_tmp
    /\ bucket # input
    /\ \E w \in Workers : wk[w].finished_count = Radix

\* C3 (Idempotence): the call on the slice a first call returned leaves it
\* as it was, position by position.
C3_Idempotence ==
    (call = 2 /\ pc = "returned") => bucket = first_out

\* The second call returned from the scanning path on a slice holding two
\* different elements that agree on every level.
C3_Witness ==
    /\ call = 2
    /\ pc = "returned"
    /\ fresh_tmp
    /\ first_out # input
    /\ \E i \in DOMAIN bucket : \E j \in DOMAIN bucket :
           /\ bucket[i] # bucket[j]
           /\ LexLeFrom(T, bucket[i], bucket[j], 0)
           /\ LexLeFrom(T, bucket[j], bucket[i], 0)

\* C4 (LEVELS = 0 is rejected at entry): a call on a key type without
\* levels goes from its entry to the panic and nowhere else, and the slice,
\* the counts and the scratch state are as they were.
C4_ZeroLevelsRejected ==
    LEVELS(T) = 0 =>
        /\ pc \in {"entry", "panicked"}
        /\ bucket = input
        /\ counts = NoCounts
        /\ tasks = {}

\* The panic on a slice long enough for the scanning path.
C4_Witness ==
    /\ LEVELS(T) = 0
    /\ pc = "panicked"
    /\ Len(input) > ScanThreshold

\* ---------------------------------------------- properties of the tuner ----
\* C8 (standard table): with in_place = FALSE the tuner returns the
\* algorithm of the table: Comparative up to 128 elements, then by
\* distribution, depth and length.
C8_StandardTable ==
    (alg # "None" /\ ~p.in_place) =>
        LET len == p.input_len
            depth == p.total_levels - p.level - 1
            distributed ==
                len >= 5000 /\ \E b \in Bytes : tcounts[b] >= (len \div 256) * 2
        IN  alg =
              IF len <= 128 THEN "ComparativeSort"
              ELSE IF distributed /\ depth = 0 THEN
                   IF len <= 200000 THEN "LrLsbSort"
                   ELSE IF len <= 350000 THEN "SkaSort"
                   ELSE IF len <= 4000000 THEN "MtLsbSort"
                   ELSE "RegionsSort"
              ELSE IF distributed THEN
                   IF len <= 200000 THEN "LrLsbSort"
                   ELSE IF len <= 800000 THEN "SkaSort"
                   ELSE IF len <= 5000000 THEN "RecombinatingSort"
                   ELSE "RegionsSort"
              ELSE IF depth > 0 THEN
                   IF len <= 200000 THEN "LsbSort"
                   ELSE IF len <= 800000 THEN "SkaSort"
                   ELSE IF len <= 50000000 THEN "RecombinatingSort"
                   ELSE "ScanningSort"
              ELSE IF len <= 150000 THEN "LsbSort"
                   ELSE IF len <= 260000 THEN "SkaSort"
                   ELSE IF len <= 50000000 THEN "RecombinatingSort"
                   ELSE "ScanningSort"

\* The standard table answered MtLsb for a histogram with a count exactly at
\* the distribution threshold.
C8_Witness ==
    /\ alg = "MtLsbSort"
    /\ ~p.in_place
    /\ \E b \in Bytes : tcounts[b] = (p.input_len \div 256) * 2
    /\ \A b \in Bytes : tcounts[b] <= (p.input_len \div 256) * 2

\* C9 (in-place mode): with in_place = TRUE the tuner returns Comparative up
\* to 128 elements; above, Ska exactly for 50 001 .. 1 000 000 elements and
\* Regions exactly above 1 000 000; never Scanning, Recombinating, MtLsb or
\* MtOop; and the same algorithm at every level of the key.
C9_InPlaceTable ==
    (alg # "None" /\ p.in_place) =>
        /\ p.input_len <= 128 => alg = "ComparativeSort"
        /\ p.input_len > 128 =>
             /\ alg = "SkaSort" <=> (50001 <= p.input_len /\ p.input_len <= 1000000)
             /\ alg = "RegionsSort" <=> p.input_len > 1000000
        /\ alg \notin {"ScanningSort", "RecombinatingSort", "MtLsbSort", "MtOopSort"}
        /\ \A l \in 0 .. (p.total_levels - 1) :
             pick_algorithm_in_place([p EXCEPT !.level = l], tcounts) = alg

\* The in-place table answered Regions above the last level of a key for a
\* histogram that is not distributed.
C9_Witness ==
    /\ alg = "RegionsSort"
    /\ p.in_place
    /\ p.total_levels - p.level - 1 > 0
    /\ \A b \in Bytes : tcounts[b] < (p.input_len \div 256) * 2

\* ------------------------------------------ properties of the integer keys --
\* x.to_le_bytes() of an n-byte integer: the low byte first.
RECURSIVE to_le_bytes(_, _)
to_le_bytes(x, n) ==
    IF n = 0 THEN <<>> ELSE <<x % Radix>> \o to_le_bytes(x \div Radix, n - 1)

\* x.to_be_bytes(): the same bytes, the high byte first.
to_be_bytes(x, n) ==
    LET le == to_le_bytes(x, n) IN [i \in 1 .. n |-> le[n + 1 - i]]

\* Byte number i of a byte representation, numbered from 0 at its first byte.
ByteNumber(bytes, i) == bytes[i + 1]

MultiByteKeyTypes == {"u16", "u32", "u64", "u128", "usize"}

KeyCalled == key_byte # Uninit /\ key_type \in MultiByteKeyTypes

\* C10 (integer key contract, as stated): get_level(x, l) is byte number
\* (LEVELS - 1 - l) of x's big-endian representation, numbered from 0 at the
\* first big-endian byte.
C10_AsStated ==
    KeyCalled =>
        key_byte = ByteNumber(to_be_bytes(key_self, LEVELS(key_type)),
                              LEVELS(key_type) - 1 - key_level)

\* C10 (integer key contract, as the code has it): get_level(x, l) is byte
\* number (LEVELS - 1 - l) of x's little-endian representation, which is byte
\* number l of its big-endian representation: level 0 is the most significant
\* byte.
C10_IntegerKeyContract ==
    KeyCalled =>
        /\ key_byte = ByteNumber(to_le_bytes(key_self, LEVELS(key_type)),
                                 LEVELS(key_type) - 1 - key_level)
        /\ key_byte = ByteNumber(to_be_bytes(key_self, LEVELS(key_type)), key_level)

\* get_level returned the one non-zero byte of a u128 at a level whose mirror
\* level holds a zero byte.
C10_Witness ==
    /\ KeyCalled
    /\ key_type = "u128"
    /\ key_level = 1
    /\ key_self = Pow(Radix, LEVELS(key_type) - 2)
    /\ key_byte = 1

\* ------------------------------------- properties of the counting functions --
\* C6 (tiled counting consistency): for every slice, the empty one included,
\* every tile size >= 1 and every level, get_tile_counts returns
\* ceil(len / S) histograms, one per contiguous tile, and
\* aggregate_tile_counts of them returns get_counts of the whole slice.
C6_TiledCounting ==
    (cnt_fn = "get_tile_counts" /\ cnt_pc \in {"collected", "done", "panicked"}) =>
        /\ Len(tile_counts) = cdiv(Len(cnt_bucket), tile_size)
        /\ \A t \in DOMAIN tile_counts :
             tile_counts[t] =
               get_counts(cnt_T,
                          Slice(cnt_bucket, (t - 1) * tile_size,
                                Min(t * tile_size, Len(cnt_bucket))),
                          cnt_level)
        /\ cnt_pc # "panicked"
        /\ cnt_pc = "done" => cnt_out = get_counts(cnt_T, cnt_bucket, cnt_level)

\* C7 (parallel counting): par_get_counts returns what get_counts returns and
\* par_get_all_counts what get_all_counts returns, whatever the order of the
\* chunks, of the histograms on the channel and of the reduction; every chunk
\* sends exactly one histogram, the receiver takes exactly that many, none is
\* left, and the call is never stuck before it returns.
C7_ParallelCounting ==
    /\ (cnt_fn = "par_get_counts" /\ cnt_pc = "done") =>
           cnt_out = get_counts(cnt_T, cnt_bucket, cnt_level)
    /\ (cnt_fn = "par_get_all_counts" /\ cnt_pc = "done") =>
           cnt_out = get_all_counts(cnt_T, cnt_bucket)
    /\ \A j \in DOMAIN jobs :
         /\ jobs[j].pc # "panicked"
         /\ Len(jobs[j].chan) + jobs[j].received = Cardinality(jobs[j].sent)
         /\ jobs[j].sent \subseteq DOMAIN jobs[j].chunks
         /\ jobs[j].pc \in {"recv", "done"} => jobs[j].sent = DOMAIN jobs[j].chunks
         /\ jobs[j].pc = "done" =>
              /\ jobs[j].received = Len(jobs[j].chunks)
              /\ jobs[j].chan = <<>>
    /\ (cnt_fn \in {"par_get_counts", "par_get_all_counts"} /\ cnt_pc # "done") =>
           ENABLED CountNext

\* par_get_counts returned after three chunks with three different histograms
\* went through the channel.
C7_Witness ==
    /\ cnt_fn = "par_get_counts"
    /\ cnt_pc = "done"
    /\ Len(jobs[1].chunks) = 3
    /\ jobs[1].received = 3
    /\ \A c, d \in 1 .. 3 :
         c # d => get_counts(cnt_T, jobs[1].chunks[c], cnt_level)
                  # get_counts(cnt_T, jobs[1].chunks[d], cnt_level)

\* ------------------------------------------ properties of mt_lsb_sort_adapter
\* C5 (adapter sorts integers): for a non-empty slice of an integer key type,
\* mt_lsb_sort_adapter(v, 0, LEVELS - 1, ceil(len / threads)) returns with v
\* equal to the comparison sort of the input in ascending numeric order.
C5_AdapterSorts ==
    (/\ mt_pc \in {"done", "panicked"}
     /\ mt_input # <<>>
     /\ start_level = 0
     /\ end_level = LEVELS(mt_T) - 1) =>
        /\ mt_pc = "done"
        /\ mt_bucket = sort_unstable(mt_T, mt_input)

\* ------------------------------------------ properties of the default keys
\* (get_level(x, 0), ..., get_level(x, LEVELS - 1))
LevelTuple(K, x) == [l \in 1 .. LEVELS(K) |-> get_level(K, x, l - 1)]

LexLess(a, b) ==
    \E i \in DOMAIN a : a[i] < b[i] /\ \A j \in 1 .. (i - 1) : a[j] = b[j]

\* C11 (level 0 is the most significant byte): for the integer keys x < y
\* exactly when x's tuple of levels is lexicographically smaller than y's,
\* and the tuple determines the value; the byte a call returns is its entry
\* of the tuple; for [u8; N], get_level(l) is element l of the array.
C11_MostSignificantFirst ==
    key_byte # Uninit =>
        IF key_type = "u8_array"
        THEN key_byte = key_self[key_level + 1]
        ELSE /\ key_byte = LevelTuple(key_type, key_self)[key_level + 1]
             /\ \A y \in KeyValues(key_type) :
                  /\ (key_self < y) <=>
                       LexLess(LevelTuple(key_type, key_self), LevelTuple(key_type, y))
                  /\ (y < key_self) <=>
                       LexLess(LevelTuple(key_type, y), LevelTuple(key_type, key_self))
                  /\ LevelTuple(key_type, key_self) = LevelTuple(key_type, y)
                       => key_self = y

\* get_level answered for a u64 with two high bytes set, which has smaller
\* and larger values sharing its top byte.
C11_Witness ==
    /\ key_byte # Uninit
    /\ key_type = "u64"
    /\ key_self = Pow(Radix, 7) + Pow(Radix, 6)
    /\ key_level = 1
    /\ key_byte = 1

\* --------------------------------- properties of the scanning workers ---
AllBucketsFinished == \A b \in Bytes : sb[b].write_head = sb[b].len

AllWorkersExited ==
    \A w \in Workers :
        /\ wk[w].pc = "exited"
        /\ wk[w].finished_count = Radix
        /\ \A b \in Bytes : wk[w].finished_map[b]

\* Worker w has not run yet.
NotStarted(w) == wk[w] = NewWorker(wk[w].pivot)

AnyPanicked == \E w \in Workers : wk[w].pc = "panicked"

MsbChunk(msb) ==
    LET base == get_prefix_sums(counts.msb)[msb]
    IN  Slice(bucket, base, base + counts.msb[msb])

\* C14 (comparative fallback order): what a returned call sorted by
\* comparison, the whole slice when it is shorter than the threshold and
\* otherwise every chunk of one level 0 byte shorter than the threshold, is
\* ordered by the level tuples of its elements.
C14_FallbackOrder ==
    pc = "returned" =>
        IF Len(bucket) < SortThreshold
        THEN OrderedByLevels(T, bucket)
        ELSE \A msb \in Bytes :
                 counts.msb[msb] < SortThreshold => OrderedByLevels(T, MsbChunk(msb))

\* ------------------------------- properties of the scanner buckets ------
\* The slice as scanning_radix_sort_bucket received it.
ScanOrig == IF call = 1 THEN input ELSE first_out

\* The offset of scanner bucket b's slab in the slice.
SlabBase(b) == get_prefix_sums(counts.msb)[b]

HeadsOrdered ==
    \A b \in Bytes :
        /\ 0 <= sb[b].write_head
        /\ sb[b].write_head <= sb[b].read_head
        /\ sb[b].read_head <= sb[b].len

\* While the workers run, the slots of a slab from read_head on hold what
\* they held when the workers were spawned.
UnreadUntouched ==
    pc = "workers" =>
        \A b \in Bytes : \A k \in (sb[b].read_head + 1) .. sb[b].len :
            bucket[SlabBase(b) + k] = ScanOrig[SlabBase(b) + k]

HeadsMonotone ==
    \A b \in Bytes :
        /\ sb'[b].write_head >= sb[b].write_head
        /\ sb'[b].read_head >= sb[b].read_head
        /\ sb'[b].len = sb[b].len

\* A slot the step changed lies in [write_head, read_head) of its slab,
\* read_head taken after the read of the same iteration.
WritesInWindow ==
    \A b \in Bytes : \A k \in 1 .. sb[b].len :
        bucket'[SlabBase(b) + k] # bucket[SlabBase(b) + k]
            => (sb[b].write_head < k /\ k <= sb'[b].read_head)

\* C15 (scanner head invariant): every scanner bucket has
\* 0 <= write_head <= read_head <= len; while the workers run no step
\* lowers a head, a write changes only slots in [write_head, read_head),
\* and the slots not yet read are never overwritten.
C15_ScannerHeads ==
    /\ [](HeadsOrdered /\ UnreadUntouched)
    /\ [][pc = "workers" => (HeadsMonotone /\ WritesInWindow)]_vars

\* A bucket partly read and partly written back, behind a changed slot.
C15_Witness ==
    /\ pc = "workers"
    /\ bucket # ScanOrig
    /\ \E b \in Bytes :
           /\ 0 < sb[b].write_head
           /\ sb[b].write_head < sb[b].read_head
           /\ sb[b].read_head < sb[b].len

\* ------------------- properties of the scanning sort's partition --------
RECURSIVE SumBytes(_, _)
\* f[0] + ... + f[n - 1]
SumBytes(f, n) == IF n = 0 THEN 0 ELSE f[n - 1] + SumBytes(f, n - 1)

RECURSIVE SumWorkers(_, _)
\* f[1] + ... + f[n]
SumWorkers(f, n) == IF n = 0 THEN 0 ELSE f[n] + SumWorkers(f, n - 1)

\* How often x occurs in slab b outside [write_head, read_head): among the
\* slots written back and the slots not yet read.
InSlab(b, x) ==
    Cardinality({k \in 1 .. sb[b].len :
                    /\ k <= sb[b].write_head \/ k > sb[b].read_head
                    /\ bucket[SlabBase(b) + k] = x})

\* How often x occurs in the stashes of worker w.
InStash(w, x) == SumBytes([b \in Bytes |-> Occurrences(wk[w].stash[b], x)], Radix)

\* Every element is in exactly one place: a slot not yet read, a stash, or
\* a slot written back.
Conserved ==
    \A x \in Range(ScanOrig) :
        SumBytes([b \in Bytes |-> InSlab(b, x)], Radix)
            + SumWorkers([w \in Workers |-> InStash(w, x)], NumCpus)
        = Occurrences(ScanOrig, x)

WrittenInOwnSlab ==
    \A b \in Bytes : \A k \in 1 .. sb[b].write_head :
        get_level(T, bucket[SlabBase(b) + k], 0) = b

ExitedStashEmpty ==
    \A w \in Workers :
        wk[w].pc = "exited" => \A b \in Bytes : wk[w].stash[b] = <<>>

\* Slab b holds the elements of the slice whose level 0 byte is b, each as
\* often as the slice held it.
SlabsExact ==
    \A b \in Bytes :
        /\ \A k \in 1 .. Len(MsbChunk(b)) : get_level(T, MsbChunk(b)[k], 0) = b
        /\ \A x \in Range(ScanOrig) :
               get_level(T, x, 0) = b
                   => Occurrences(MsbChunk(b), x) = Occurrences(ScanOrig, x)

\* C16 (the scanning sort conserves elements and partitions exactly):
\* while the workers run every element of the slice is in one place, a
\* slot not yet read, a worker's stash or a slot written back, and the
\* slots written back in slab b hold elements whose level 0 byte is b; a
\* worker that left its loop has empty stashes; when all workers have left
\* and before the per-bucket passes, slab b holds exactly the elements of
\* the slice whose level 0 byte is b.
C16_ScanPartition ==
    /\ pc = "workers" => (Conserved /\ WrittenInOwnSlab /\ ExitedStashEmpty)
    /\ (pc = "tasks" /\ fresh_tmp /\ tasks = Bytes) => SlabsExact

\* The workers have all left, having moved elements between slabs.
C16_Witness ==
    /\ pc = "tasks"
    /\ fresh_tmp
    /\ tasks = Bytes
    /\ \A w \in Workers : wk[w].pc = "exited"
    /\ bucket # ScanOrig
    /\ \A b \in Bytes : sb[b].len > 0

\* ------------------------------- properties of the workers' locking -----
Holds(w) == {b \in Bytes : lock[b] = w}

\* Worker w waits in m.lock() for a mutex that is not free.
Waits(w) == pc = "workers" /\ wk[w].pc = "want" /\ lock[wk[w].cur] # 0

\* C17 (locking discipline): a worker holds at most one scanner bucket's
\* mutex, and only during its iteration on that bucket; a worker that waits
\* for a mutex holds none, and the mutex it waits for is held by a worker
\* that is in its iteration and waits for nothing, so no set of workers
\* waits on each other's mutexes.
C17_LockingDiscipline ==
    /\ \A w \in Workers :
           /\ Cardinality(Holds(w)) <= 1
           /\ Holds(w) = IF wk[w].pc = "held" THEN {wk[w].cur} ELSE {}
    /\ \A w \in Workers :
           Waits(w) =>
               /\ Holds(w) = {}
               /\ lock[wk[w].cur] \in Workers
               /\ wk[lock[wk[w].cur]].pc = "held"
               /\ ~Waits(lock[wk[w].cur])

\* One worker holds the mutex another worker is waiting for.
C17_Witness ==
    /\ pc = "workers"
    /\ \E w \in Workers : \E v \in Workers \ {w} :
           /\ wk[w].pc = "held"
           /\ wk[v].pc = "want"
           /\ wk[v].cur = wk[w].cur

\* C18 (try-lock semantics): a worker that is about to take the mutex of
\* its next bucket never has to wait for it.
C18_NeverWaits ==
    pc = "workers" =>
        \A w \in Workers : wk[w].pc = "want" => ENABLED WorkerLock(w)

\* ------------------------ properties of mt_lsb_sort's destination -------
\* The source and the destination of the pass under way.
MtSrc == IF invert THEN mt_tmp ELSE mt_bucket
MtDst == IF invert THEN mt_bucket ELSE mt_tmp

\* What tile t does in the pass under way.
TileRun(t) == mt_lsb_sort_tile(mt_T, MtSrc, MtDst, mt_counts, mt_tile, mt_level, t)
TileWrites(t) == Range(TileRun(t).writes)

\* The slots of the destination (from 1) of tile t's sub-slab for byte b.
SubSlab(t, b) ==
    LET c == CollatedChunk(mt_counts, t, b)
    IN  (c.start + 1) .. (c.start + c.len)

\* The elements with a smaller byte, in any tile, and the elements with
\* byte b in the tiles before t.
SubSlabStart(t, b) ==
    SumBytes([b2 \in Bytes |->
                 SumSeq([u \in DOMAIN mt_counts |-> mt_counts[u][b2]], Len(mt_counts))],
             b)
    + SumSeq([u \in DOMAIN mt_counts |-> mt_counts[u][b]], t - 1)

\* C19 (MT-LSB destination partition): in a pass of mt_lsb_sort the
\* destination is cut, byte by byte in ascending order and within a byte
\* tile by tile, into contiguous sub-slabs of tile_counts[tile][b] slots;
\* a tile assigns only slots of its own sub-slabs and none of them twice,
\* no slot is assigned by two tiles, every slot of the destination is
\* assigned by some tile, and the tiles that have run have left their
\* assignments in the destination.
C19_DestinationPartition ==
    mt_pc = "scatter" =>
        /\ \A t \in DOMAIN mt_counts : \A b \in Bytes :
               SubSlab(t, b) =
                   (SubSlabStart(t, b) + 1) .. (SubSlabStart(t, b) + mt_counts[t][b])
        /\ \A t \in DOMAIN mt_counts :
               /\ TileRun(t).ok
               /\ TileWrites(t) \subseteq UNION {SubSlab(t, b) : b \in Bytes}
               /\ Cardinality(TileWrites(t)) = Len(TileRun(t).writes)
               /\ \A u \in DOMAIN mt_counts \ {t} : TileWrites(t) \cap TileWrites(u) = {}
        /\ UNION {TileWrites(t) : t \in DOMAIN mt_counts} = 1 .. Len(MtDst)
        /\ \A t \in DOMAIN mt_counts \ mt_left : TileRun(t).dst = MtDst

\* A pass over more than eight elements with one tile done and one to go,
\* two tiles holding elements of the same byte.
C19_Witness ==
    /\ mt_pc = "scatter"
    /\ Len(MtSrc) > 8
    /\ mt_left # {}
    /\ mt_left # DOMAIN mt_counts
    /\ \E b \in Bytes : \E t \in DOMAIN mt_counts : \E u \in DOMAIN mt_counts :
           t # u /\ mt_counts[t][b] > 0 /\ mt_counts[u][b] > 0

\* ------------------------ properties of mt_lsb_sort_adapter's buffers ---
RECURSIVE ByByteFrom(_, _, _, _)
\* The elements of v with byte b at the level, then those with b + 1, ...,
\* each group in the order of v.
ByByteFrom(K, v, level, b) ==
    IF b = Radix THEN <<>>
    ELSE LET HasByte(x) == get_level(K, x, level) = b
         IN  SelectSeq(v, HasByte) \o ByByteFrom(K, v, level, b + 1)

RECURSIVE Passes(_, _, _, _)
\* v after one stable pass per level l .. last.
Passes(K, v, l, last) ==
    IF l > last THEN v ELSE Passes(K, ByByteFrom(K, v, l, 0), l + 1, last)

\* The passes the adapter makes on its input.
PassCount ==
    IF Len(mt_input) < 2 \/ start_level > end_level THEN 0
    ELSE end_level - start_level + 1

LastPassResult ==
    IF PassCount = 0 THEN mt_input
    ELSE Passes(mt_T, mt_input, start_level, end_level)

\* C20 (MT-LSB adapter buffer parity): when the loop over the levels ends
\* after an even number of passes, none included, the caller's bucket holds
\* the result of the last pass and the adapter returns without a copy;
\* after an odd number the scratch holds it and is copied back; when the
\* adapter has returned, in either case and for inputs of fewer than two
\* elements too, the caller's bucket holds the result of the last pass.
C20_BufferParity ==
    /\ (mt_pc = "levels" /\ mt_level > end_level) =>
           /\ invert <=> PassCount % 2 = 1
           /\ (IF invert THEN mt_tmp ELSE mt_bucket) = LastPassResult
    /\ mt_pc = "copy" =>
           (PassCount % 2 = 1 /\ mt_tmp = LastPassResult /\ Len(mt_tmp) = Len(mt_bucket))
    /\ mt_pc = "done" =>
           /\ invert <=> PassCount % 2 = 1
           /\ mt_bucket = LastPassResult

\* The adapter has returned after three passes that moved elements.
C20_Witness ==
    /\ mt_pc = "done"
    /\ invert
    /\ PassCount = 3
    /\ mt_bucket # mt_input

\* ------------------------------ properties of single-level keys ---------
\* C27 (no level underflow for single-level keys): a call on a slice of a
\* key type with one level ends by returning; it does not panic and does
\* not write outside its buffers.
C27_SingleLevelCompletes ==
    (LEVELS(T) = 1 /\ Ended) => pc = "returned"

\* ------------------------------ properties of the scatter passes --------
\* The first slot of the destination (from 1) for byte b, by the counts
\* handed in.
SlotBase(b) == SumBytes(op_counts, b)

\* C21 (every scatter pass writes each output slot exactly once): a call
\* of out_of_place_sort or out_of_place_sort_with_counts with the true
\* histogram of its source returns, having assigned every slot of the
\* destination exactly once, each element to a slot of its byte's range
\* [prefix_sums[b], prefix_sums[b] + counts[b]), elements of equal byte in
\* the order of the source, so that no slot of the destination is left
\* uninitialized; the scatter of radix_sort_bucket and
\* lsb_radix_sort_bucket leaves the same destination.
C21_ScatterWritesOnce ==
    /\ (op_fn \in ScatterFns /\ op_pc \in {"done", "panicked"}) =>
           /\ op_pc = "done"
           /\ Len(op_dst) = Len(op_src)
           /\ Uninit \notin Range(op_dst)
           /\ op_dst = ByByteFrom(op_T, op_src, op_level, 0)
    /\ (op_fn \in ScatterFns \ {"radix_sort_bucket"} /\ op_pc = "done") =>
           /\ Len(op_writes) = Len(op_dst)
           /\ {op_writes[i].at : i \in DOMAIN op_writes} = 1 .. Len(op_dst)
           /\ \A i \in DOMAIN op_writes :
                  LET w == op_writes[i]
                      b == get_level(op_T, op_src[w.k], op_level)
                  IN  /\ w.k = i
                      /\ op_dst[w.at] = op_src[w.k]
                      /\ SlotBase(b) < w.at
                      /\ w.at <= SlotBase(b) + op_counts[b]
           /\ \A i \in DOMAIN op_writes : \A j \in DOMAIN op_writes :
                  (i < j /\ get_level(op_T, op_src[i], op_level)
                                = get_level(op_T, op_src[j], op_level))
                      => op_writes[i].at < op_writes[j].at

\* out_of_place_sort has returned from a slice of more than eight elements
\* with a remainder, which it did not leave in place.
C21_Witness ==
    /\ op_fn = "out_of_place_sort"
    /\ op_pc = "done"
    /\ Len(op_src) > 8
    /\ Len(op_src) % 8 # 0
    /\ op_dst # op_src
    /\ Cardinality({b \in Bytes : op_counts[b] > 0}) > 1

\* How many elements of v have byte i at the level.
ByteCount(K, v, level, i) ==
    Cardinality({k \in DOMAIN v : get_level(K, v[k], level) = i})

\* C22 (out_of_place_sort_with_counts): the call returns; its destination
\* is the destination out_of_place_sort leaves for the same arguments, and
\* the histogram it returns is get_counts of the source at level + 1, the
\* number of elements per byte at that level, with sum src.len().
C22_ScatterWithCounts ==
    (op_fn = "out_of_place_sort_with_counts" /\ op_pc \in {"done", "panicked"}) =>
        /\ op_pc = "done"
        /\ op_dst = out_of_place_sort(op_T, op_src, get_tmp_bucket(Len(op_src)),
                                      op_counts, op_level).dst
        /\ op_next = get_counts(op_T, op_src, op_level + 1)
        /\ \A i \in Bytes : op_next[i] = ByteCount(op_T, op_src, op_level + 1, i)
        /\ SumBytes(op_next, Radix) = Len(op_src)

\* It has returned from a slice of more than eight elements with a
\* remainder, with more than one byte at the next level.
C22_Witness ==
    /\ op_fn = "out_of_place_sort_with_counts"
    /\ op_pc = "done"
    /\ Len(op_src) > 8
    /\ Len(op_src) % 8 # 0
    /\ Cardinality({b \in Bytes : op_next[b] > 0}) > 1

\* C23 (histogram invariant): what get_counts returns for a slice and a
\* level holds at i the number of elements whose byte at the level is i,
\* and sums to the length of the slice.
C23_Histogram ==
    (op_fn \in ScatterFns /\ op_pc = "counted") =>
        /\ \A i \in Bytes : op_counts[i] = ByteCount(op_T, op_src, op_level, i)
        /\ SumBytes(op_counts, Radix) = Len(op_src)

\* get_counts has returned from a slice of more than four elements whose
\* length is not a multiple of four, with more than one byte.
C23_Witness ==
    /\ op_fn \in ScatterFns
    /\ op_pc = "counted"
    /\ Len(op_src) > 4
    /\ Len(op_src) % 4 # 0
    /\ Cardinality({b \in Bytes : op_counts[b] > 0}) > 1

\* C24 (prefix sums and end offsets): get_prefix_sums, of sort_utils.rs and
\* of lib.rs alike, returns sums with sums[0] = 0 and sums[i] the sum of
\* the counts before i; get_end_offsets returns ends with ends[i] =
\* sums[i + 1] below the last byte and the sum of all counts at the last
\* byte, so that ends[i] - sums[i] = counts[i].
C24_PrefixSums ==
    /\ (op_fn = "get_prefix_sums" /\ op_pc \in {"summed", "done"}) =>
           /\ op_sums[0] = 0
           /\ \A i \in Bytes : op_sums[i] = SumBytes(op_counts, i)
           /\ get_prefix_sums(op_counts) = op_sums
    /\ (op_fn = "get_prefix_sums" /\ op_pc = "done") =>
           /\ \A i \in Bytes \ {Radix - 1} : op_ends[i] = op_sums[i + 1]
           /\ op_ends[Radix - 1] = SumBytes(op_counts, Radix)
           /\ \A i \in Bytes : op_ends[i] - op_sums[i] = op_counts[i]

\* Both have returned for a histogram without an empty byte.
C24_Witness ==
    /\ op_fn = "get_prefix_sums"
    /\ op_pc = "done"
    /\ \A i \in Bytes : op_counts[i] > 0
    /\ op_counts[0] # op_counts[Radix - 1]

\* ----------------------------- plateaus ----------------------------------
Detected == op_fn = "detect_plateaus" /\ op_pc # "call"

IsRun(v, pl) ==
    /\ 0 <= pl[2] /\ pl[2] < pl[3] /\ pl[3] <= Len(v)
    /\ \A k \in (pl[2] + 1) .. pl[3] : v[k] = pl[1]

IsMaximal(v, pl) ==
    /\ pl[2] = 0 \/ v[pl[2]] # pl[1]
    /\ pl[3] = Len(v) \/ v[pl[3] + 1] # pl[1]

\* C25: every (byte, start, end) that detect_plateaus returns is a maximal
\* run of elements whose level byte is byte, at least len >> 4 long; the
\* ranges returned are pairwise disjoint; nothing is returned when
\* len >> 4 is below the minimum plateau size.
C25_Plateaus ==
    Detected =>
        /\ detect_plateaus(op_T, op_src, op_level).ok
        /\ \A n \in 1 .. Len(op_plateaus) :
               /\ IsRun(op_src, op_plateaus[n])
               /\ IsMaximal(op_src, op_plateaus[n])
               /\ op_plateaus[n][3] - op_plateaus[n][2] >= Len(op_src) \div PlateauDivisor
        /\ \A n \in 1 .. Len(op_plateaus) : \A k \in 1 .. Len(op_plateaus) :
               n < k => \/ op_plateaus[n][3] <= op_plateaus[k][2]
                        \/ op_plateaus[k][3] <= op_plateaus[n][2]
        /\ Len(op_src) \div PlateauDivisor < PlateauMinSize => op_plateaus = <<>>

\* Two plateaus of one candidate, one of them found by exploring away from
\* its sample on both sides.
C25_Witness ==
    /\ Detected
    /\ Len(op_plateaus) >= 2
    /\ op_plateaus[1][1] = op_plateaus[2][1]
    /\ \E n \in 1 .. Len(op_plateaus) :
           /\ op_plateaus[n][2] % (Len(op_src) \div PlateauDivisor) # 0
           /\ op_plateaus[n][3] % (Len(op_src) \div PlateauDivisor) # 0

\* The only plateau of a call of apply_plateaus with a plateau of the
\* caller's choice, and where it goes.
SinglePlateau == op_fn = "apply_plateaus" /\ op_pc \in {"done", "panicked"}
PlByte == op_plateaus[1][1]
PlL == op_plateaus[1][2]
PlR == op_plateaus[1][3]
PlW == SlotBase(PlByte)

\* op_dst is op_src with the n elements from a and the n elements from b
\* (indices from 0) exchanged.
Exchanged(a, b, n) ==
    op_dst = [k \in 1 .. Len(op_src) |->
                 IF k - 1 \in a .. (a + n - 1) THEN op_src[k - a + b]
                 ELSE IF k - 1 \in b .. (b + n - 1) THEN op_src[k - b + a]
                 ELSE op_src[k]]

\* C26: apply_plateaus with one plateau (byte, l, r), w = prefix_sums[byte]:
\* the bucket is unchanged when l = w; the plateau and its destination
\* [w, w + (r - l)) are exchanged when they are disjoint; when they overlap
\* in part, the two tails outside the overlap, of equal length, are
\* exchanged. Afterwards the destination holds only elements of that byte,
\* the bucket is a permutation of what it was and prefix_sums[byte] has
\* advanced by r - l, the other prefix sums and the end offsets being those
\* of the counts.
C26_SinglePlateau ==
    SinglePlateau =>
        /\ op_pc = "done"
        /\ PlL = PlW => op_dst = op_src
        /\ (PlR <= PlW \/ PlL >= PlW + (PlR - PlL)) => Exchanged(PlL, PlW, PlR - PlL)
        /\ (PlL < PlW /\ PlW < PlR) => Exchanged(PlL, PlR, PlW - PlL)
        /\ (PlW < PlL /\ PlL < PlW + (PlR - PlL)) =>
               Exchanged(PlW, PlW + (PlR - PlL), PlL - PlW)
        /\ \A k \in (PlW + 1) .. (PlW + (PlR - PlL)) : op_dst[k] = PlByte
        /\ SameMultiset(op_dst, op_src)
        /\ \A b \in Bytes :
               /\ op_sums[b] = SlotBase(b) + (IF b = PlByte THEN PlR - PlL ELSE 0)
               /\ op_ends[b] = SlotBase(b) + op_counts[b]

\* A plateau that begins before its destination and ends inside it: the
\* tails were exchanged.
C26_Witness ==
    /\ SinglePlateau
    /\ op_pc = "done"
    /\ PlL < PlW
    /\ PlW < PlR
    /\ PlR - PlL >= 2
    /\ op_dst # op_src

\* apply_plateaus has ended on the plateaus detect_plateaus returned.
AppliedDetected == op_fn = "detect_plateaus" /\ op_pc \in {"done", "panicked"}

\* C29: apply_plateaus on the whole list detect_plateaus returned, the
\* counts being the histogram of the bucket: afterwards, for every byte b,
\* the elements in [prefix_sums_initial[b], prefix_sums'[b]) have level
\* byte b, prefix_sums'[b] <= end_offsets[b], the end offsets are those of
\* the counts, and the bucket is a permutation of what it was.
C29_AllPlateaus ==
    (AppliedDetected /\ detect_plateaus(op_T, op_src, op_level).ok) =>
        /\ op_pc = "done"
        /\ \A b \in Bytes :
               /\ \A k \in (SlotBase(b) + 1) .. op_sums[b] :
                      get_level(op_T, op_dst[k], op_level) = b
               /\ op_sums[b] <= op_ends[b]
               /\ op_ends[b] = SlotBase(b) + op_counts[b]
        /\ SameMultiset(op_dst, op_src)

\* ------------------------------ stability of the passes of mt_lsb_sort ---
\* Tile t of the source of the pass under way.
MtTile(t) == par_chunks(MtSrc, mt_tile)[t]

\* The index (from 1) in a tile of n elements of the element of the i-th
\* assignment: the n % 8 last elements from the right, then by turns one
\* from the left and one from the right.
VisitOrder(n, i) ==
    LET pre == n % 8
        j == i - pre - 1
        k == j \div 8
        q == j % 8
    IN  IF i <= pre THEN n - i + 1
        ELSE IF q % 2 = 0 THEN 4 * k + (q \div 2) + 1
        ELSE (n - pre) - 4 * k - ((q - 1) \div 2)

\* x is not above y by the levels first .. l, a later level counting more.
RECURSIVE PassLe(_, _, _, _, _)
PassLe(K, x, y, l, first) ==
    IF l < first THEN TRUE
    ELSE \/ get_level(K, x, l) < get_level(K, y, l)
         \/ /\ get_level(K, x, l) = get_level(K, y, l)
            /\ PassLe(K, x, y, l - 1, first)

\* C28: a pass of mt_lsb_sort is stable. Within a tile, of two elements
\* with the same byte at the level of the pass the one with the smaller
\* index in the tile is assigned the smaller slot of the destination, from
\* whichever end of the tile it is taken; the sub-slab of a byte of an
\* earlier tile lies before that of a later tile; the destination of a
\* finished pass holds, byte by byte, the elements of the source in their
\* order in the source. After the passes of the adapter the bucket is
\* ordered by the levels of the passes, a later pass counting more.
C28_StablePasses ==
    /\ mt_pc = "scatter" =>
           /\ \A t \in DOMAIN mt_counts :
                  LET tile == MtTile(t)
                      run == TileRun(t)
                      n == Len(tile)
                  IN  /\ run.ok
                      /\ Len(run.writes) = n
                      /\ \A i \in 1 .. n :
                             /\ VisitOrder(n, i) \in 1 .. n
                             /\ run.dst[run.writes[i]] = tile[VisitOrder(n, i)]
                      /\ \A i \in 1 .. n : \A j \in 1 .. n :
                             (/\ VisitOrder(n, i) < VisitOrder(n, j)
                              /\ get_level(mt_T, tile[VisitOrder(n, i)], mt_level)
                                     = get_level(mt_T, tile[VisitOrder(n, j)], mt_level))
                                 => run.writes[i] < run.writes[j]
           /\ \A t \in DOMAIN mt_counts : \A u \in DOMAIN mt_counts : \A b \in Bytes :
                  t < u => \A x \in SubSlab(t, b) : \A y \in SubSlab(u, b) : x < y
    /\ (mt_pc = "levels" /\ mt_level > start_level) =>
           (IF invert THEN mt_tmp ELSE mt_bucket)
               = ByByteFrom(mt_T, IF invert THEN mt_bucket ELSE mt_tmp, mt_level - 1, 0)
    /\ (mt_pc = "done" /\ PassCount > 0) =>
           \A i \in 1 .. (Len(mt_bucket) - 1) :
               PassLe(mt_T, mt_bucket[i], mt_bucket[i + 1], end_level, start_level)

\* A pass with two tiles, the first run: it has more than eight elements
\* and a tail, and holds two different elements of one byte, one taken from
\* its left end and one from its right end; the second tile holds that
\* byte too.
C28_Witness ==
    /\ mt_pc = "scatter"
    /\ Len(mt_counts) = 2
    /\ mt_left = {2}
    /\ Len(MtTile(1)) > 8
    /\ Len(MtTile(1)) % 8 # 0
    /\ \E i \in 1 .. 4 : \E j \in 5 .. Len(MtTile(1)) :
           /\ MtTile(1)[i] # MtTile(1)[j]
           /\ get_level(mt_T, MtTile(1)[i], mt_level)
                  = get_level(mt_T, MtTile(1)[j], mt_level)
           /\ mt_counts[2][get_level(mt_T, MtTile(1)[i], mt_level)] > 0
====
